---- MODULE Spec2Model ----
(***************************************************************************)
(* Model of Source/BoundaryConditions/PML.cpp (WarpX / ARTEMIS): the PML   *)
(* layer geometry builder (PML::MakeBoxArray), the damping profile         *)
(* generator (SigmaBox), the decay-factor cache (MultiSigmaBox) and the    *)
(* exchange engine (PML::Exchange), in the two-dimensional build           *)
(* (AMREX_SPACEDIM == 2).                                                  *)
(*                                                                         *)
(* A Box is a record [lo, hi] of two index pairs (cell-centred, inclusive  *)
(* bounds); a BoxList / BoxArray is a sequence of boxes.                   *)
(***************************************************************************)
EXTENDS Integers, Sequences, FiniteSets, TLC

\* ------------------------------------------------------------------ bounds
\* The problem domain geom.Domain() is [0, DomX-1] x [0, DomY-1].
DomX == 3
DomY == 2
\* Largest layer depth ncell tried.
MaxNcell == 2
\* Largest number of interior blocks in grid_ba.
MaxGrids == 2

\* AMREX_SPACEDIM of the modelled build.
SpaceDim == 2
Dims == 1..SpaceDim

\* ------------------------------------------------------- amrex::Box algebra
Max2(a, b) == IF a >= b THEN a ELSE b
Min2(a, b) == IF a <= b THEN a ELSE b

MkBox(lx, ly, hx, hy) == [lo |-> <<lx, ly>>, hi |-> <<hx, hy>>]

\* Box::ok(): non-empty on every axis.
BoxOk(b) == \A d \in Dims : b.lo[d] <= b.hi[d]

\* Box::length(d)
BoxLength(b, d) == b.hi[d] - b.lo[d] + 1

\* operator& : intersection (possibly not ok).
BoxAnd(a, b) ==
    [lo |-> [d \in Dims |-> Max2(a.lo[d], b.lo[d])],
     hi |-> [d \in Dims |-> Min2(a.hi[d], b.hi[d])]]

BoxIntersects(a, b) == BoxOk(BoxAnd(a, b))

\* Box::contains(b): b lies inside a.
BoxContains(a, b) == \A d \in Dims : a.lo[d] <= b.lo[d] /\ b.hi[d] <= a.hi[d]

\* amrex::grow(b, n): grow on every axis, both sides.
BoxGrow(b, n) ==
    [lo |-> [d \in Dims |-> b.lo[d] - n], hi |-> [d \in Dims |-> b.hi[d] + n]]

\* amrex::grow(b, idim, n): grow on one axis, both sides.
BoxGrowDim(b, idim, n) ==
    [lo |-> [d \in Dims |-> IF d = idim THEN b.lo[d] - n ELSE b.lo[d]],
     hi |-> [d \in Dims |-> IF d = idim THEN b.hi[d] + n ELSE b.hi[d]]]

\* Box::growLo(idim, n) / Box::growHi(idim, n)
BoxGrowLo(b, idim, n) == [b EXCEPT !.lo[idim] = @ - n]
BoxGrowHi(b, idim, n) == [b EXCEPT !.hi[idim] = @ + n]

\* Box::shift(iv)
BoxShift(b, iv) ==
    [lo |-> [d \in Dims |-> b.lo[d] + iv[d]], hi |-> [d \in Dims |-> b.hi[d] + iv[d]]]

\* amrex::adjCellLo(b, idim, n): the n cells just below b's low face along idim.
AdjCellLo(b, idim, n) ==
    [b EXCEPT !.lo[idim] = b.lo[idim] - n, !.hi[idim] = b.lo[idim] - 1]

\* amrex::adjCellHi(b, idim, n): the n cells just above b's high face along idim.
AdjCellHi(b, idim, n) ==
    [b EXCEPT !.lo[idim] = b.hi[idim] + 1, !.hi[idim] = b.hi[idim] + n]

\* Cells of a box, and of a list of boxes.
Cells(b) == (b.lo[1]..b.hi[1]) \X (b.lo[2]..b.hi[2])
CellsOf(bl) == UNION {Cells(bl[k]) : k \in DOMAIN bl}

\* Sequence helpers.
RECURSIVE Flatten(_)
Flatten(ss) == IF ss = <<>> THEN <<>> ELSE Head(ss) \o Flatten(Tail(ss))

SelectOk(s) == SelectSeq(s, BoxOk)

\* amrex::boxDiff(b1in, b2): b1in minus b2 as a list of disjoint boxes, chopping
\* the low and the high slab off axis by axis, last axis first.
RECURSIVE BoxDiffAxis(_, _, _)
BoxDiffAxis(b1, b2, i) ==
    IF i = 0 THEN <<>>
    ELSE LET cutLo == b1.lo[i] < b2.lo[i] /\ b2.lo[i] <= b1.hi[i]
             loPart == IF cutLo THEN << [b1 EXCEPT !.hi[i] = b2.lo[i] - 1] >> ELSE <<>>
             b1a == IF cutLo THEN [b1 EXCEPT !.lo[i] = b2.lo[i]] ELSE b1
             cutHi == b1a.lo[i] <= b2.hi[i] /\ b2.hi[i] < b1a.hi[i]
             hiPart == IF cutHi THEN << [b1a EXCEPT !.lo[i] = b2.hi[i] + 1] >> ELSE <<>>
             b1b == IF cutHi THEN [b1a EXCEPT !.hi[i] = b2.hi[i]] ELSE b1a
         IN  loPart \o hiPart \o BoxDiffAxis(b1b, b2, i - 1)

BoxDiff(b1in, b2) ==
    IF BoxContains(b2, b1in) THEN <<>>
    ELSE IF ~BoxIntersects(b2, b1in) THEN << b1in >>
    ELSE BoxDiffAxis(b1in, b2, SpaceDim)

\* BoxArray::complementIn(bx): bx minus every box of ba, as a list of boxes. Every
\* box of ba that meets bx is subtracted in turn from the pieces left so far.
RECURSIVE ComplementFrom(_, _, _)
ComplementFrom(ba, bx, bl) ==
    IF ba = <<>> THEN bl
    ELSE LET isect == BoxAnd(bx, Head(ba))
             newbl == Flatten([k \in DOMAIN bl |-> BoxDiff(bl[k], isect)])
         IN  ComplementFrom(Tail(ba), bx, IF BoxOk(isect) THEN newbl ELSE bl)
ComplementIn(ba, bx) == ComplementFrom(ba, bx, << bx >>)

\* BoxList::intersect(b): every box cut to b, empty results dropped.
BoxListIntersect(bl, b) == SelectOk([k \in DOMAIN bl |-> BoxAnd(bl[k], b)])

\* BoxArray::minimalBox(): the bounding box.
RECURSIVE MinimalBoxFrom(_, _)
MinimalBoxFrom(acc, s) ==
    IF s = <<>> THEN acc
    ELSE LET b == Head(s)
         IN MinimalBoxFrom([lo |-> [d \in Dims |-> Min2(acc.lo[d], b.lo[d])],
                            hi |-> [d \in Dims |-> Max2(acc.hi[d], b.hi[d])]], Tail(s))
MinimalBox(ba) == MinimalBoxFrom(Head(ba), Tail(ba))

\* The empty box removeOverlap leaves in place of a box it has split.
EmptyBox == MkBox(0, 0, -1, -1)

\* BoxArray::removeOverlap(false): box i is kept whole; every other box that meets
\* it is replaced by its boxDiff pieces, appended at the end (and visited later).
RECURSIVE RemoveOverlapInner(_, _, _)
RemoveOverlapInner(ab, i, js) ==
    IF js = {} THEN ab
    ELSE LET j == CHOOSE x \in js : \A y \in js : x <= y
             isect == BoxAnd(ab[j], ab[i])
         IN  RemoveOverlapInner([ab EXCEPT ![j] = EmptyBox] \o BoxDiff(ab[j], isect),
                                i, js \ {j})

RECURSIVE RemoveOverlapFrom(_, _)
RemoveOverlapFrom(ab, i) ==
    IF i > Len(ab) THEN SelectOk(ab)
    ELSE IF ~BoxOk(ab[i]) THEN RemoveOverlapFrom(ab, i + 1)
    ELSE LET js == {j \in DOMAIN ab : j # i /\ BoxOk(ab[j]) /\ BoxIntersects(ab[j], ab[i])}
         IN  RemoveOverlapFrom(RemoveOverlapInner(ab, i, js), i + 1)

RemoveOverlap(bl) == RemoveOverlapFrom(bl, 1)

\* ------------------------------------------------------ PML::MakeBoxArray
\* Lines 782-792: the domain grown by ncell on every enabled non-periodic side.
RECURSIVE GrownDomainFrom(_, _, _, _, _, _)
GrownDomainFrom(dom, idim, per, nc, pmlLo, pmlHi) ==
    IF idim > SpaceDim THEN dom
    ELSE LET d1 == IF ~per[idim] /\ pmlLo[idim] THEN BoxGrowLo(dom, idim, nc) ELSE dom
             d2 == IF ~per[idim] /\ pmlHi[idim] THEN BoxGrowHi(d1, idim, nc) ELSE d1
         IN  GrownDomainFrom(d2, idim + 1, per, nc, pmlLo, pmlHi)

\* A domain grown on every side, whatever the periodicity and the flags.
GrownDomainAllSides(dom, per, nc, pmlLo, pmlHi) == BoxGrow(dom, nc)

GrownDomain(dom, per, nc, pmlLo, pmlHi) == GrownDomainFrom(dom, 1, per, nc, pmlLo, pmlHi)

\* Lines 818-837: the neighbour offsets (jj outer, ii inner) of the block, shifted
\* by its own size and cut to bx.
NeighbourShifts == << <<-1, -1>>, <<0, -1>>, <<1, -1>>, <<-1, 0>>, <<1, 0>>,
                      <<-1, 1>>, <<0, 1>>, <<1, 1>> >>

BndryBoxes(grid_bx, bx) ==
    SelectOk([k \in DOMAIN NeighbourShifts |->
        BoxAnd(BoxShift(grid_bx, [d \in Dims |->
                   BoxLength(grid_bx, d) * NeighbourShifts[k][d]]), bx)])

\* Lines 814-847: the boxes one interior block adds to bl.
BlockLayerBoxes(gba, grid_bx, dom, nc) ==
    LET bx == BoxAnd(BoxGrow(grid_bx, nc), dom)
        bndryboxes == BndryBoxes(grid_bx, bx)
        noncovered == ComplementIn(gba, bx)
        Cut(b) == SelectOk([k \in DOMAIN bndryboxes |-> BoxAnd(b, bndryboxes[k])])
    IN  Flatten([k \in DOMAIN noncovered |-> Cut(noncovered[k])])

\* Lines 793-848: the list bl collected over all interior blocks.
CollectLayerBoxes(gdomain, gba, per, nc, pmlLo, pmlHi) ==
    LET dom == GrownDomain(gdomain, per, nc, pmlLo, pmlHi)
    IN  Flatten([k \in DOMAIN gba |-> BlockLayerBoxes(gba, gba[k], dom, nc)])

\* A block-set builder that skips the overlap removal.
FinishBoxArrayKeepOverlap(bl) == bl

\* Lines 850-851: the overlap removal on the collected list.
FinishBoxArray(bl) == RemoveOverlap(bl)

\* An assertion that accepts a block exactly ncell cells long.
BlockingFactorOkOffByOne(grid_bx, per, nc, inDomain, pmlLo, pmlHi) ==
    inDomain \/ \A idim \in Dims :
        (~per[idim] /\ (pmlLo[idim] \/ pmlHi[idim])) => BoxLength(grid_bx, idim) >= nc

\* Lines 799-812: the blocking-factor assertion on one interior block.
BlockingFactorOk(grid_bx, per, nc, inDomain, pmlLo, pmlHi) ==
    inDomain \/ \A idim \in Dims :
        (~per[idim] /\ (pmlLo[idim] \/ pmlHi[idim])) => BoxLength(grid_bx, idim) > nc

\* The whole function: [fatal |-> TRUE] when the assertion fires on some block,
\* else [fatal |-> FALSE, ba |-> the returned BoxArray].
MakeBoxArray(gdomain, gba, per, nc, inDomain, pmlLo, pmlHi) ==
    IF \E k \in DOMAIN gba : ~BlockingFactorOk(gba[k], per, nc, inDomain, pmlLo, pmlHi)
    THEN [fatal |-> TRUE, ba |-> <<>>]
    ELSE [fatal |-> FALSE,
          ba |-> FinishBoxArray(CollectLayerBoxes(gdomain, gba, per, nc, pmlLo, pmlHi))]

\* ------------------------------------------------------------- SigmaBox
\* Profile values are exact fractions [n, d] (n/d), in units of PhysConst::c for
\* sigma and sigma_star and as plain numbers for the two cumsum arrays (the c of
\* fac cancels against the division by c).  An entry no fill has written holds
\* NoValue: the constructor only resizes the arrays and never clears them.
NoValue == <<>>
Frac(n, d) == << [n |-> n, d |-> d] >>
IsValue(v) == v # NoValue
FracEq(v, w) == IsValue(v) /\ IsValue(w) /\ v[1].n * w[1].d = w[1].n * v[1].d
FracIsZero(v) == IsValue(v) /\ v[1].n = 0

\* Line 157: fac[idim] = 4*c/(dx[idim]*delta*delta), as [n, d] in units of c.
Fac(cellsize, dl, idim) == [n |-> 4, d |-> cellsize[idim] * dl * dl]

\* Profile arrays with one entry per cell, without the extra nodal entry.
NewSigmaCells(box, idim) ==
    LET arr == [i \in box.lo[idim]..box.hi[idim] |-> NoValue]
    IN  [sigma |-> arr, sigma_cumsum |-> arr, sigma_star |-> arr, sigma_star_cumsum |-> arr]

\* Lines 126-153: the four profile arrays of one axis, indexed lo..hi+1.
NewSigma(box, idim) ==
    LET arr == [i \in box.lo[idim]..(box.hi[idim] + 1) |-> NoValue]
    IN  [sigma |-> arr, sigma_cumsum |-> arr, sigma_star |-> arr, sigma_star_cumsum |-> arr]

\* Lines 132-135, 145-152: the four decay-factor arrays of one axis, only resized.
NewFactors(box, idim) ==
    LET arr == [i \in box.lo[idim]..(box.hi[idim] + 1) |-> NoValue]
    IN  [sigma_fac |-> arr, sigma_cumsum_fac |-> arr,
         sigma_star_fac |-> arr, sigma_star_cumsum_fac |-> arr]

\* A fill that stopped at the last cell, one entry short of the nodal end.
FillRangeCells(overlap, idim) == overlap.lo[idim]..overlap.hi[idim]

\* The index range a fill walks: N = ohi+1-olo+1 entries from olo (lines 41, 72, 100).
FillRange(overlap, idim) == overlap.lo[idim]..(overlap.hi[idim] + 1)

\* fac*(off2/2)^2 and fac*(off2/2)^3/3/c for a doubled offset off2.
Quadratic(fac, off2) == Frac(fac.n * off2 * off2, fac.d * 4)
Cubic(fac, off2) == Frac(fac.n * off2 * off2 * off2, fac.d * 8 * 3)

\* A low-side fill whose star arrays stop at the last cell of the overlap.
FillLoStarShort(idim, sig, overlap, grid, fac) ==
    LET glo == grid.lo[idim]
        ohi == overlap.hi[idim]
        R == FillRange(overlap, idim)
    IN  [sigma |-> [i \in DOMAIN sig.sigma |->
                      IF i \in R THEN Quadratic(fac, 2 * (glo - i)) ELSE sig.sigma[i]],
         sigma_cumsum |-> [i \in DOMAIN sig.sigma_cumsum |->
                      IF i \in R THEN Cubic(fac, 2 * (glo - i)) ELSE sig.sigma_cumsum[i]],
         sigma_star |-> [i \in DOMAIN sig.sigma_star |->
                      IF i \in R /\ i <= ohi
                      THEN Quadratic(fac, 2 * (glo - i) - 1) ELSE sig.sigma_star[i]],
         sigma_star_cumsum |-> [i \in DOMAIN sig.sigma_star_cumsum |->
                      IF i \in R /\ i <= ohi
                      THEN Cubic(fac, 2 * (glo - i) - 1) ELSE sig.sigma_star_cumsum[i]]]

\* Lines 31-60.  The star arrays take offset - 0.5 and are guarded by i <= ohi+1.
FillLo(idim, sig, overlap, grid, fac) ==
    LET glo == grid.lo[idim]
        ohi == overlap.hi[idim]
        R == FillRange(overlap, idim)
    IN  [sigma |-> [i \in DOMAIN sig.sigma |->
                      IF i \in R THEN Quadratic(fac, 2 * (glo - i)) ELSE sig.sigma[i]],
         sigma_cumsum |-> [i \in DOMAIN sig.sigma_cumsum |->
                      IF i \in R THEN Cubic(fac, 2 * (glo - i)) ELSE sig.sigma_cumsum[i]],
         sigma_star |-> [i \in DOMAIN sig.sigma_star |->
                      IF i \in R /\ i <= ohi + 1
                      THEN Quadratic(fac, 2 * (glo - i) - 1) ELSE sig.sigma_star[i]],
         sigma_star_cumsum |-> [i \in DOMAIN sig.sigma_star_cumsum |->
                      IF i \in R /\ i <= ohi + 1
                      THEN Cubic(fac, 2 * (glo - i) - 1) ELSE sig.sigma_star_cumsum[i]]]

\* Lines 62-89.  offset = i-ghi-1, and (i-ghi) - 0.5 for the star arrays.
FillHi(idim, sig, overlap, grid, fac) ==
    LET ghi == grid.hi[idim]
        ohi == overlap.hi[idim]
        R == FillRange(overlap, idim)
    IN  [sigma |-> [i \in DOMAIN sig.sigma |->
                      IF i \in R THEN Quadratic(fac, 2 * (i - ghi - 1)) ELSE sig.sigma[i]],
         sigma_cumsum |-> [i \in DOMAIN sig.sigma_cumsum |->
                      IF i \in R THEN Cubic(fac, 2 * (i - ghi - 1)) ELSE sig.sigma_cumsum[i]],
         sigma_star |-> [i \in DOMAIN sig.sigma_star |->
                      IF i \in R /\ i <= ohi + 1
                      THEN Quadratic(fac, 2 * (i - ghi) - 1) ELSE sig.sigma_star[i]],
         sigma_star_cumsum |-> [i \in DOMAIN sig.sigma_star_cumsum |->
                      IF i \in R /\ i <= ohi + 1
                      THEN Cubic(fac, 2 * (i - ghi) - 1) ELSE sig.sigma_star_cumsum[i]]]

\* A zero fill that left the two star arrays alone.
FillZeroPrimaryOnly(idim, sig, overlap) ==
    [sig EXCEPT !.sigma = [i \in DOMAIN sig.sigma |->
                    IF i \in FillRange(overlap, idim) THEN Frac(0, 1) ELSE sig.sigma[i]],
                !.sigma_cumsum = [i \in DOMAIN sig.sigma_cumsum |->
                    IF i \in FillRange(overlap, idim) THEN Frac(0, 1)
                    ELSE sig.sigma_cumsum[i]]]

\* Lines 91-115.
FillZero(idim, sig, overlap) ==
    LET ohi == overlap.hi[idim]
        R == FillRange(overlap, idim)
        zero == Frac(0, 1)
    IN  [sigma |-> [i \in DOMAIN sig.sigma |-> IF i \in R THEN zero ELSE sig.sigma[i]],
         sigma_cumsum |-> [i \in DOMAIN sig.sigma_cumsum |->
                      IF i \in R THEN zero ELSE sig.sigma_cumsum[i]],
         sigma_star |-> [i \in DOMAIN sig.sigma_star |->
                      IF i \in R /\ i <= ohi + 1 THEN zero ELSE sig.sigma_star[i]],
         sigma_star_cumsum |-> [i \in DOMAIN sig.sigma_star_cumsum |->
                      IF i \in R /\ i <= ohi + 1 THEN zero ELSE sig.sigma_star_cumsum[i]]]

\* Line 164: jdim = (idim+1) % AMREX_SPACEDIM, on axes numbered from 1.
Jdim(idim) == (idim % SpaceDim) + 1

\* Line 160: grids.intersections(box, false, ncell): the indices of the interior
\* blocks whose ncell-grown box meets the destination box, in index order.
Isects(box, grids, nc) ==
    SelectSeq([k \in DOMAIN grids |-> k],
              LAMBDA k : BoxIntersects(BoxGrow(grids[k], nc), box))

\* Lines 169-207 (two-dimensional build): the category of one neighbour on axis idim.
Classify(box, grid_box, idim, nc) ==
    IF BoxIntersects(BoxGrowDim(grid_box, idim, nc), box) THEN "direct_face"
    ELSE IF BoxIntersects(BoxGrowDim(grid_box, Jdim(idim), nc), box) THEN "side_face"
    ELSE "corner"

OfCategory(cat, box, grids, idim, nc) ==
    SelectSeq(Isects(box, grids, nc),
              LAMBDA k : Classify(box, grids[k], idim, nc) = cat)

\* The fills of one corner or direct-face neighbour, given its two overlaps
\* (lines 218-239, 303-320).
FillLoHi(cat, st, looverlap, hioverlap, grid_box, idim, fac) ==
    IF ~BoxOk(looverlap) /\ ~BoxOk(hioverlap)
    THEN [st EXCEPT !.abort = IF cat = "corner" THEN "corners" ELSE "direct faces"]
    ELSE IF ~BoxOk(hioverlap)
    THEN [st EXCEPT !.sig = FillLo(idim, @, looverlap, grid_box, fac)]
    ELSE IF ~BoxOk(looverlap)
    THEN [st EXCEPT !.sig = FillHi(idim, @, hioverlap, grid_box, fac)]
    ELSE [st EXCEPT !.sig = FillHi(idim, FillLo(idim, @, looverlap, grid_box, fac),
                                   hioverlap, grid_box, fac)]

\* The fill of one side-face neighbour, given its overlap (lines 290-295).
FillSide(st, overlap, idim) ==
    IF BoxOk(overlap) THEN [st EXCEPT !.sig = FillZero(idim, @, overlap)]
    ELSE [st EXCEPT !.abort = "side_faces"]

\* One neighbour of a category: st is [abort, sig].  Lines 209-240 (corners),
\* 282-296 (side faces), 298-321 (direct faces).  Nothing runs after an abort.
FillNeighbour(cat, st, box, grid_box, idim, nc, fac) ==
    IF st.abort # "none" THEN st
    ELSE IF cat = "side_face"
    THEN FillSide(st, BoxAnd(BoxGrowDim(grid_box, Jdim(idim), nc), box), idim)
    ELSE IF cat = "corner"
    THEN FillLoHi(cat, st,
                  BoxAnd(BoxGrowDim(AdjCellLo(grid_box, idim, nc), Jdim(idim), nc), box),
                  BoxAnd(BoxGrowDim(AdjCellHi(grid_box, idim, nc), Jdim(idim), nc), box),
                  grid_box, idim, fac)
    ELSE FillLoHi(cat, st, BoxAnd(AdjCellLo(grid_box, idim, nc), box),
                  BoxAnd(AdjCellHi(grid_box, idim, nc), box), grid_box, idim, fac)

RECURSIVE FillCategory(_, _, _, _, _, _, _, _)
FillCategory(cat, gids, st, box, grids, idim, nc, fac) ==
    IF gids = <<>> THEN st
    ELSE FillCategory(cat, Tail(gids),
                      FillNeighbour(cat, st, box, grids[Head(gids)], idim, nc, fac),
                      box, grids, idim, nc, fac)

\* A constructor without the test of lines 323-325.
CheckDirectFacesNever(st, ndirect) == st

\* Lines 323-325: more than one direct face aborts.
CheckDirectFaces(st, ndirect) ==
    IF st.abort = "none" /\ ndirect > 1
    THEN [st EXCEPT !.abort = "direct_faces.size() > 1"]
    ELSE st

\* All the neighbours of one category, in the order of isects.
FillAll(cat, st, box, grids, idim, nc, fac) ==
    FillCategory(cat, OfCategory(cat, box, grids, idim, nc), st, box, grids, idim, nc, fac)

\* Lines 162-326: one axis.  Corners first, then side faces, then direct faces,
\* then the test that at most one direct face exists.
SigmaAxis(box, grids, idim, nc, fac) ==
    CheckDirectFaces(
        FillAll("direct_face",
            FillAll("side_face",
                FillAll("corner", [abort |-> "none", sig |-> NewSigma(box, idim)],
                        box, grids, idim, nc, fac),
                box, grids, idim, nc, fac),
            box, grids, idim, nc, fac),
        Len(OfCategory("direct_face", box, grids, idim, nc)))

\* The object the constructor leaves, given the outcome ax[idim] of every axis:
\* abort is "none" or the message of the first amrex::Abort reached (axes in
\* order); prof[idim] holds the four profile arrays of the axis and fac[idim] its
\* four decay-factor arrays.
SigmaBoxOf(ax, box) ==
    [abort |-> IF \A idim \in Dims : ax[idim].abort = "none" THEN "none"
               ELSE ax[CHOOSE d \in Dims : ax[d].abort # "none" /\
                           \A e \in Dims : ax[e].abort # "none" => d <= e].abort,
     prof |-> [idim \in Dims |-> ax[idim].sig],
     fac |-> [idim \in Dims |-> NewFactors(box, idim)]]

\* Lines 118-329: the constructor.
SigmaBox(box, grids, cellsize, nc, dl) ==
    SigmaBoxOf([idim \in Dims |-> SigmaAxis(box, grids, idim, nc, Fac(cellsize, dl, idim))],
               box)

\* std::exp(-v*s) of a profile value v = n/d, kept as the exact exponent -(n*s)/d;
\* the exponential of an entry no fill has written is as indeterminate as the entry.
ExpNeg(v, s) == IF IsValue(v) THEN << [expneg_n |-> v[1].n * s, expneg_d |-> v[1].d] >>
                ELSE NoValue

\* Lines 332-359: SigmaBox::ComputePMLFactorsB on one block.
SigmaBoxComputePMLFactorsB(sb, a_dx, dt) ==
    [sb EXCEPT !.fac = [idim \in Dims |->
        [@[idim] EXCEPT
            !.sigma_star_fac = [i \in DOMAIN @ |-> ExpNeg(sb.prof[idim].sigma_star[i], dt)],
            !.sigma_star_cumsum_fac =
                [i \in DOMAIN @ |-> ExpNeg(sb.prof[idim].sigma_star_cumsum[i], a_dx[idim])]]]]

\* Lines 361-388: SigmaBox::ComputePMLFactorsE on one block.
SigmaBoxComputePMLFactorsE(sb, a_dx, dt) ==
    [sb EXCEPT !.fac = [idim \in Dims |->
        [@[idim] EXCEPT
            !.sigma_fac = [i \in DOMAIN @ |-> ExpNeg(sb.prof[idim].sigma[i], dt)],
            !.sigma_cumsum_fac =
                [i \in DOMAIN @ |-> ExpNeg(sb.prof[idim].sigma_cumsum[i], a_dx[idim])]]]]

\* ------------------------------------------------------------ amrex::MultiFab
\* amrex::convert(b, ixType): a nodal axis has one more index than cells.
Convert(b, ix) == [lo |-> b.lo, hi |-> [d \in Dims |-> b.hi[d] + ix[d]]]
ConvertAll(bl, ix) == [k \in DOMAIN bl |-> Convert(bl[k], ix)]

\* A MultiFab: its boxes (already of its index type), its ghost width, its number
\* of components, and one array per box over the box grown by the ghost width.
\* MultiFab(ba, dm, ncomp, ng) followed by setVal(val).
MultiFab(mfba, ncomp, ng, val) ==
    [ba |-> mfba, ncomp |-> ncomp, ng |-> ng,
     fab |-> [k \in DOMAIN mfba |->
                [cell \in Cells(BoxGrow(mfba[k], ng)) |-> [c \in 1..ncomp |-> val]]]]

\* geom.periodicity() as the list of shifts a copy tries: every combination of
\* -1, 0, +1 domain lengths along the periodic axes (lines 1110, 1177, 1202).
RECURSIVE ShiftSeq(_)
ShiftSeq(S) ==
    IF S = {} THEN <<>>
    ELSE LET m == CHOOSE a \in S : \A b \in S \ {a} :
                      a[1] < b[1] \/ (a[1] = b[1] /\ a[2] < b[2])
         IN  << m >> \o ShiftSeq(S \ {m})

PeriodShifts(dom, per) ==
    LET S == {sh \in (-1..1) \X (-1..1) : \A d \in Dims : per[d] \/ sh[d] = 0}
        q == ShiftSeq(S)
    IN  [k \in DOMAIN q |-> << q[k][1] * BoxLength(dom, 1), q[k][2] * BoxLength(dom, 2) >>]

InBox(p, b) == \A d \in Dims : b.lo[d] <= p[d] /\ p[d] <= b.hi[d]

\* dst.ParallelCopy(src, scomp, dcomp, ncomp, sng, dng, period): every point of a
\* destination box grown by dng that is a (shifted) point of a source box grown
\* by sng takes the source value; the copies run in source-box order, so the
\* last source box (and shift) reaching a point is the one that stays.
ParallelCopy(dst, src, scomp, dcomp, ncomp, sng, dng, shifts) ==
    LET Shifted(c) == BoxShift(BoxGrow(src.ba[c[1]], sng), shifts[c[2]])
        Pairs(k) == {c \in (DOMAIN src.ba) \X (DOMAIN shifts) :
                        BoxIntersects(Shifted(c), BoxGrow(dst.ba[k], dng))}
        Last(C) == CHOOSE c \in C : \A e \in C :
                       e[1] < c[1] \/ (e[1] = c[1] /\ e[2] <= c[2])
    IN  [dst EXCEPT !.fab = [k \in DOMAIN dst.ba |->
            LET pairs == Pairs(k)
                into == BoxGrow(dst.ba[k], dng)
            IN  IF pairs = {} THEN dst.fab[k]
                ELSE [p \in DOMAIN dst.fab[k] |->
                        LET cand == {c \in pairs : InBox(p, Shifted(c))}
                        IN  IF InBox(p, into) /\ cand # {}
                            THEN LET c == Last(cand)
                                     from == src.fab[c[1]][<< p[1] - shifts[c[2]][1],
                                                              p[2] - shifts[c[2]][2] >>]
                                 IN  [i \in 1..dst.ncomp |->
                                        IF dcomp + 1 <= i /\ i <= dcomp + ncomp
                                        THEN from[i - dcomp + scomp]
                                        ELSE dst.fab[k][p][i]]
                            ELSE dst.fab[k][p]]]]

\* MultiFab::Copy(dst, src, scomp, dcomp, ncomp, ng) on two MultiFabs of the same
\* boxes: box by box, over the box grown by ng.
MultiFabCopy(dst, src, scomp, dcomp, ncomp, ng) ==
    [dst EXCEPT !.fab = [k \in DOMAIN dst.ba |->
        [p \in DOMAIN dst.fab[k] |->
            IF InBox(p, BoxGrow(dst.ba[k], ng))
            THEN [i \in 1..dst.ncomp |->
                    IF dcomp + 1 <= i /\ i <= dcomp + ncomp
                    THEN src.fab[k][p][i - dcomp + scomp] ELSE dst.fab[k][p][i]]
            ELSE dst.fab[k][p]]]]

\* mf.setVal(val, comp, ncomp, ng)
MultiFabSetVal(mf, val, comp, ncomp, ng) ==
    [mf EXCEPT !.fab = [k \in DOMAIN mf.ba |->
        [p \in DOMAIN mf.fab[k] |->
            IF InBox(p, BoxGrow(mf.ba[k], ng))
            THEN [i \in 1..mf.ncomp |->
                    IF comp + 1 <= i /\ i <= comp + ncomp THEN val ELSE mf.fab[k][p][i]]
            ELSE mf.fab[k][p]]]]

\* A sum that left out the third split component.
TotalOfSplitTwo(pml) ==
    [ba |-> pml.ba, ncomp |-> 1, ng |-> 0,
     fab |-> [k \in DOMAIN pml.ba |->
                [p \in Cells(pml.ba[k]) |-> << pml.fab[k][p][1] + pml.fab[k][p][2] >>]]]

\* Lines 1116-1120: the sum of the split components over the valid points of pml.
TotalOfSplit(pml) ==
    [ba |-> pml.ba, ncomp |-> 1, ng |-> 0,
     fab |-> [k \in DOMAIN pml.ba |->
                [p \in Cells(pml.ba[k]) |->
                    << IF pml.ncomp = 3
                       THEN pml.fab[k][p][1] + pml.fab[k][p][2] + pml.fab[k][p][3]
                       ELSE pml.fab[k][p][1] + pml.fab[k][p][2] >>]]]

\* A copy back that took the whole array of tmpregmf, valid points included.
CopyGhostsFromAll(reg, tmpregmf) ==
    [reg EXCEPT !.fab = [k \in DOMAIN reg.ba |->
        [p \in DOMAIN reg.fab[k] |->
            [reg.fab[k][p] EXCEPT ![1] = tmpregmf.fab[k][p][1]]]]]

\* Lines 1138-1153: reg takes component 0 of tmpregmf on boxDiff(fab box, valid
\* box), the points of each array outside its valid box.
CopyGhostsFrom(reg, tmpregmf) ==
    [reg EXCEPT !.fab = [k \in DOMAIN reg.ba |->
        [p \in DOMAIN reg.fab[k] |->
            IF InBox(p, reg.ba[k]) THEN reg.fab[k][p]
            ELSE [reg.fab[k][p] EXCEPT ![1] = tmpregmf.fab[k][p][1]]]]]

\* Lines 1132-1134: tmpregmf after the copy of reg and of the layer total into it.
TmpWithLayer(pml, reg, shifts) ==
    ParallelCopy(MultiFabCopy(MultiFab(reg.ba, pml.ncomp, reg.ng, NoValue),
                              reg, 0, 0, 1, reg.ng),
                 TotalOfSplit(pml), 0, 0, 1, 0, reg.ng, shifts)

\* Lines 1113, 1122-1155: tmpregmf and reg after the layer-to-interior half.
LayerToInterior(pml, reg, shifts, inDomain) ==
    IF inDomain
    THEN [tmp |-> MultiFab(reg.ba, pml.ncomp, reg.ng, NoValue),
          reg |-> ParallelCopy(reg, TotalOfSplit(pml), 0, 0, 1, 0, 0, shifts)]
    ELSE IF reg.ng > 0
    THEN [tmp |-> TmpWithLayer(pml, reg, shifts),
          reg |-> CopyGhostsFrom(reg, TmpWithLayer(pml, reg, shifts))]
    ELSE [tmp |-> MultiFab(reg.ba, pml.ncomp, reg.ng, NoValue), reg |-> reg]

\* A tmpregmf whose other components were set to one instead of zero.
TmpOfInteriorOnes(tmp, reg) ==
    MultiFabSetVal(MultiFabCopy(tmp, reg, 0, 0, 1, 0), 1, 1, tmp.ncomp - 1, 0)

\* Lines 1161-1162: tmpregmf holding reg in its first component and zero in the
\* others, on the valid points.
TmpOfInterior(tmp, reg) ==
    MultiFabSetVal(MultiFabCopy(tmp, reg, 0, 0, 1, 0), 0, 1, tmp.ncomp - 1, 0)

\* An interior-to-layer half that filled no ghost point of the layer.
InteriorToLayerValidOnly(pml, tmp, shifts, inDomain) ==
    IF inDomain
    THEN ParallelCopy(pml, ParallelCopy(tmp, pml, 0, 0, pml.ncomp, 0, 0, shifts),
                      0, 0, pml.ncomp, 0, 0, shifts)
    ELSE ParallelCopy(pml, tmp, 0, 0, pml.ncomp, 0, 0, shifts)

\* Lines 1157-1169: the interior-to-layer half, from tmpregmf as lines 1161-1162
\* leave it.
InteriorToLayer(pml, tmp, shifts, inDomain) ==
    IF inDomain
    THEN ParallelCopy(pml, ParallelCopy(tmp, pml, 0, 0, pml.ncomp, 0, 0, shifts),
                      0, 0, pml.ncomp, 0, pml.ng, shifts)
    ELSE ParallelCopy(pml, tmp, 0, 0, pml.ncomp, 0, pml.ng, shifts)

ExchangeSecondHalf(pml, h, shifts, inDomain) ==
    [pml |-> InteriorToLayer(pml, TmpOfInterior(h.tmp, h.reg), shifts, inDomain),
     reg |-> h.reg]

\* Lines 1101-1170: PML::Exchange.  [pml, reg] after the call.
Exchange(pml, reg, shifts, inDomain) ==
    ExchangeSecondHalf(pml, LayerToInterior(pml, reg, shifts, inDomain), shifts, inDomain)

\* A copy that kept the valid points of the layer as they were.
CopyToPMLGhostsOnly(pml, reg, shifts) ==
    [pml EXCEPT !.fab = [k \in DOMAIN pml.ba |->
        [p \in DOMAIN pml.fab[k] |->
            IF InBox(p, pml.ba[k]) THEN pml.fab[k][p]
            ELSE ParallelCopy(pml, reg, 0, 0, 1, 0, pml.ng, shifts).fab[k][p]]]]

\* Lines 1173-1180: PML::CopyToPML.
CopyToPML(pml, reg, shifts) == ParallelCopy(pml, reg, 0, 0, 1, 0, pml.ng, shifts)

\* amrex::FillBoundary(mf, period): every point of an array outside its own valid
\* box takes the value of the (shifted) valid point of a box that holds it.
FillBoundaryMF(mf, shifts) ==
    LET filled == ParallelCopy(mf, mf, 0, 0, mf.ncomp, 0, mf.ng, shifts)
    IN  [mf EXCEPT !.fab = [k \in DOMAIN mf.ba |->
            [p \in DOMAIN mf.fab[k] |->
                IF InBox(p, mf.ba[k]) THEN mf.fab[k][p] ELSE filled.fab[k][p]]]]

\* ------------------------------------------------------------ PML::PML
VARIABLES
    domain,            \* geom->Domain()
    isPeriodic,        \* geom->isPeriodic(idim)
    dx,                \* geom->CellSize()
    grid_ba,           \* the interior block set of the level
    ncell, delta,
    do_pml_in_domain, do_pml_Lo, do_pml_Hi,
    warpx,             \* what the constructor reads from the WarpX instance and its
                       \* other arguments: the index types of E, B and j, the solver,
                       \* do_dive_cleaning, do_moving_window, the spectral stencil
    pc,                \* where the object is in its life
    fatal,             \* "none", or the message of the fatal error that ended the run
    ba,                \* the BoxArray MakeBoxArray returned to the constructor
    m_ok,
    pml_E_fp, pml_B_fp, pml_j_fp,   \* NoValue (null) or << three MultiFabs >>
    pml_F_fp,                       \* NoValue (null) or << one MultiFab >>
    sigba_fp,          \* NoValue (null) or << the MultiSigmaBox >>
    spectral_solver_fp,\* NoValue (null) or << the solver >>
    Efield_fp, Bfield_fp, current_fp,  \* the interior fields the callers pass in:
    F_fp,                              \* NoValue (null) or << MultiFab(s) >>
    disk,              \* the checkpoint files: name -> NoValue or << MultiFab >>
    calls,             \* the SigmaBox::ComputePMLFactors{B,E} calls the last
                       \* operation made, as a set of << "B" or "E", block >>
    trace              \* the operations called on the object so far, in order,
                       \* each with its time step argument (0 when it has none)

VARIABLES
    cgeom,             \* NoValue (null) or << the coarse companion geometry >>:
                       \* its Domain(), isPeriodic and CellSize()
    ref_ratio,         \* the refinement ratio, read only when cgeom is not null
    cba,               \* the BoxArray MakeBoxArray returned for the coarse patch
    pml_E_cp, pml_B_cp, pml_j_cp,   \* NoValue (null) or << three MultiFabs >>
    pml_F_cp,                       \* NoValue (null) or << one MultiFab >>
    sigba_cp,          \* NoValue (null) or << the MultiSigmaBox >>
    spectral_solver_cp \* NoValue (null) or << the solver >>

inputs == << domain, isPeriodic, dx, grid_ba, ncell, delta,
             do_pml_in_domain, do_pml_Lo, do_pml_Hi, warpx, cgeom, ref_ratio >>
fields == << pml_E_fp, pml_B_fp, pml_j_fp, pml_F_fp >>
interior == << Efield_fp, Bfield_fp, current_fp, F_fp >>
coarse == << cba, pml_E_cp, pml_B_cp, pml_j_cp, pml_F_cp, sigba_cp, spectral_solver_cp >>
vars == << domain, isPeriodic, dx, grid_ba, ncell, delta,
           do_pml_in_domain, do_pml_Lo, do_pml_Hi, warpx, pc, fatal, ba, m_ok,
           pml_E_fp, pml_B_fp, pml_j_fp, pml_F_fp, sigba_fp, spectral_solver_fp,
           Efield_fp, Bfield_fp, current_fp, F_fp, disk, calls, trace,
           cgeom, ref_ratio, cba, pml_E_cp, pml_B_cp, pml_j_cp, pml_F_cp,
           sigba_cp, spectral_solver_cp >>

\* Lines 447-459: the interior blocks cut to the bounding box shrunk by ncell on
\* every enabled non-periodic side.
RECURSIVE ReducedDomainFrom(_, _, _, _, _, _)
ReducedDomainFrom(dom0, idim, per, nc, pmlLo, pmlHi) ==
    IF idim > SpaceDim THEN dom0
    ELSE LET d1 == IF ~per[idim] /\ pmlLo[idim] THEN BoxGrowLo(dom0, idim, -nc) ELSE dom0
             d2 == IF ~per[idim] /\ pmlHi[idim] THEN BoxGrowHi(d1, idim, -nc) ELSE d1
         IN  ReducedDomainFrom(d2, idim + 1, per, nc, pmlLo, pmlHi)

GridBaReduced(gba, per, nc, pmlLo, pmlHi) ==
    BoxListIntersect(gba, ReducedDomainFrom(MinimalBox(gba), 1, per, nc, pmlLo, pmlHi))

\* Lines 461-463, 597-602: the block set handed to MakeBoxArray and to the
\* MultiSigmaBox.
LayerGrids ==
    IF do_pml_in_domain
    THEN GridBaReduced(grid_ba, isPeriodic, ncell, do_pml_Lo, do_pml_Hi)
    ELSE grid_ba

\* Lines 390-394: one SigmaBox per box of ba, built in index order.
MultiSigmaBox(pmlba, grids, cellsize, nc, dl) ==
    [k \in DOMAIN pmlba |-> SigmaBox(pmlba[k], grids, cellsize, nc, dl)]

SigmaAborts(msb) == {k \in DOMAIN msb : msb[k].abort # "none"}

\* The time step a new MultiSigmaBox holds in dt_B and dt_E before any factor has
\* been computed: a value no time step takes.
DtNever == 0 - 1

\* The MultiSigmaBox object: its SigmaBoxes and the two cached time steps.
MultiSigmaBoxObject(msb) == [sb |-> msb, dt_B |-> DtNever, dt_E |-> DtNever]

\* Lines 396-410: MultiSigmaBox::ComputePMLFactorsB.
MultiSigmaBoxComputePMLFactorsB(o, a_dx, dt) ==
    IF dt = o.dt_B THEN o
    ELSE [o EXCEPT !.dt_B = dt,
                   !.sb = [k \in DOMAIN @ |-> SigmaBoxComputePMLFactorsB(@[k], a_dx, dt)]]

\* A recomputation that did not record the dt it used.
MultiSigmaBoxComputePMLFactorsEForgetful(o, a_dx, dt) ==
    IF dt = o.dt_E THEN o
    ELSE [o EXCEPT !.sb = [k \in DOMAIN @ |-> SigmaBoxComputePMLFactorsE(@[k], a_dx, dt)]]

\* Lines 412-426: MultiSigmaBox::ComputePMLFactorsE.
MultiSigmaBoxComputePMLFactorsE(o, a_dx, dt) ==
    IF dt = o.dt_E THEN o
    ELSE [o EXCEPT !.dt_E = dt,
                   !.sb = [k \in DOMAIN @ |-> SigmaBoxComputePMLFactorsE(@[k], a_dx, dt)]]

\* The per-block calls the two functions make (lines 398, 406-409, 414, 422-425).
FactorCalls(o, dt) ==
    (IF dt = o.dt_B THEN {} ELSE {<< "B", k >> : k \in DOMAIN o.sb})
        \cup (IF dt = o.dt_E THEN {} ELSE {<< "E", k >> : k \in DOMAIN o.sb})

\* Lines 473-505: the ghost widths of E/B (nge = ngb) and of F.
MaxInt(S) == CHOOSE m \in S : \A n \in S : n <= m
NgFFT(w) == IF w.do_nodal THEN w.nox_fft ELSE w.nox_fft \div 2
Ngf0(w) ==
    LET ngf_int == IF w.do_moving_window THEN 2 ELSE 0
    IN  IF w.solver = "CKC" THEN Max2(ngf_int, 1) ELSE ngf_int
Nge(w) == IF w.solver = "PSATD" THEN MaxInt({NgFFT(w), 2, Ngf0(w)}) ELSE 2
Ngf(w) == IF w.solver = "PSATD" THEN MaxInt({NgFFT(w), 2, Ngf0(w)}) ELSE Ngf0(w)

\* Line 508
NcompE(w) == IF w.do_dive_cleaning THEN 3 ELSE 2

\* A size test that never finds the block set empty.
EmptyBlockSetNever(b) == Len(b) < 0

\* Line 464: the test that disables the layer.
EmptyBlockSet(b) == Len(b) = 0

\* Lines 461-463: the constructor calls MakeBoxArray.
CallMakeBoxArray ==
    /\ pc = "ctor"
    /\ \E r \in {MakeBoxArray(domain, LayerGrids, isPeriodic, ncell,
                              do_pml_in_domain, do_pml_Lo, do_pml_Hi)} :
           IF r.fatal
           THEN /\ pc' = "aborted"
                /\ fatal' = "Consider using larger amr.blocking_factor with PMLs"
                /\ ba' = ba
           ELSE /\ pc' = "made"
                /\ fatal' = fatal
                /\ ba' = r.ba
    /\ UNCHANGED << inputs, coarse, m_ok, fields, sigba_fp, spectral_solver_fp,
                    interior, disk, calls, trace >>

\* Lines 464-466: an empty block set disables the layer and ends the constructor.
ConstructDisabled ==
    /\ pc = "made"
    /\ EmptyBlockSet(ba)
    /\ m_ok' = FALSE
    /\ pc' = "constructed"
    /\ UNCHANGED << inputs, coarse, fatal, ba, fields, sigba_fp, spectral_solver_fp,
                    interior, disk, calls, trace >>

\* Line 633: BoxArray::coarsen of cell-centred boxes.
Coarsen(b, ratio) ==
    [lo |-> [d \in Dims |-> b.lo[d] \div ratio[d]],
     hi |-> [d \in Dims |-> b.hi[d] \div ratio[d]]]
GridCba == [k \in DOMAIN grid_ba |-> Coarsen(grid_ba[k], ref_ratio)]

\* Lines 636-650: the bounding box of the coarsened blocks, shrunk by
\* ncell/ref_ratio[idim] on every enabled side that is not periodic in cgeom.
RECURSIVE Domain1From(_, _)
Domain1From(dom1, idim) ==
    IF idim > SpaceDim THEN dom1
    ELSE LET per == cgeom[1].isPeriodic[idim]
             depth == ncell \div ref_ratio[idim]
             d1 == IF ~per /\ do_pml_Lo[idim] THEN BoxGrowLo(dom1, idim, -depth) ELSE dom1
             d2 == IF ~per /\ do_pml_Hi[idim] THEN BoxGrowHi(d1, idim, -depth) ELSE d1
         IN  Domain1From(d2, idim + 1)

\* Line 651
GridCbaReduced == BoxListIntersect(GridCba, Domain1From(MinimalBox(GridCba), 1))

\* Lines 654-656, 749-754: the blocks, the layer depth and the profile length
\* handed to MakeBoxArray and to the MultiSigmaBox of the coarse patch.
CoarseGrids == IF do_pml_in_domain THEN GridCbaReduced ELSE GridCba
CoarseNcell == IF do_pml_in_domain THEN ncell \div ref_ratio[1] ELSE ncell
CoarseDelta == IF do_pml_in_domain THEN delta \div ref_ratio[1] ELSE delta

\* Lines 627-630: the ghost width of the coarse E, B and j.
NgeCp(w) == IF w.solver # "PSATD" THEN 1 ELSE Nge(w)

\* Lines 625-777: the coarse patch, built when a coarse companion geometry is
\* given: its block set, which may end in the blocking-factor error; its split
\* fields, zeroed; its damping profiles, which may abort; its spectral solver.
ConstructCoarsePatch ==
    \E r \in {MakeBoxArray(cgeom[1].domain, CoarseGrids, cgeom[1].isPeriodic, CoarseNcell,
                           do_pml_in_domain, do_pml_Lo, do_pml_Hi)} :
        IF r.fatal
        THEN /\ pc' = "aborted"
             /\ fatal' = "Consider using larger amr.blocking_factor with PMLs"
             /\ UNCHANGED coarse
        ELSE /\ cba' = r.ba
             /\ pml_E_cp' = << [i \in 1..3 |->
                    MultiFab(ConvertAll(r.ba, warpx.ixE[i]), NcompE(warpx), NgeCp(warpx), 0)] >>
             /\ pml_B_cp' = << [i \in 1..3 |->
                    MultiFab(ConvertAll(r.ba, warpx.ixB[i]), 2, NgeCp(warpx), 0)] >>
             /\ pml_j_cp' = << [i \in 1..3 |->
                    MultiFab(ConvertAll(r.ba, warpx.ixJ[i]), 1, NgeCp(warpx), 0)] >>
             /\ pml_F_cp' = IF warpx.do_dive_cleaning
                            THEN << MultiFab(ConvertAll(r.ba, <<1, 1>>), 3, Ngf(warpx), 0) >>
                            ELSE pml_F_cp
             /\ \E msb \in {MultiSigmaBox(r.ba, CoarseGrids, cgeom[1].dx,
                                          CoarseNcell, CoarseDelta)} :
                    IF SigmaAborts(msb) # {}
                    THEN /\ sigba_cp' = sigba_cp
                         /\ spectral_solver_cp' = spectral_solver_cp
                         /\ pc' = "aborted"
                         /\ fatal' = msb[CHOOSE k \in SigmaAborts(msb) :
                                            \A l \in SigmaAborts(msb) : k <= l].abort
                    ELSE /\ sigba_cp' = << MultiSigmaBoxObject(msb) >>
                         /\ spectral_solver_cp' =
                                IF warpx.solver = "PSATD"
                                THEN << [in_pml |-> TRUE, log |-> <<>>] >>
                                ELSE spectral_solver_cp
                         /\ pc' = "constructed"
                         /\ fatal' = fatal

\* Lines 467-777: the rest of the constructor on a non-empty block set (vacuum
\* medium): the split fields, zeroed; the damping profiles, which may abort; the
\* spectral solver when PSATD is selected; then the coarse patch when cgeom is
\* not null.
ConstructEnabled ==
    /\ pc = "made"
    /\ ~EmptyBlockSet(ba)
    /\ m_ok' = TRUE
    /\ pml_E_fp' = << [i \in 1..3 |->
                        MultiFab(ConvertAll(ba, warpx.ixE[i]), NcompE(warpx), Nge(warpx), 0)] >>
    /\ pml_B_fp' = << [i \in 1..3 |->
                        MultiFab(ConvertAll(ba, warpx.ixB[i]), 2, Nge(warpx), 0)] >>
    /\ pml_j_fp' = << [i \in 1..3 |->
                        MultiFab(ConvertAll(ba, warpx.ixJ[i]), 1, Nge(warpx), 0)] >>
    /\ pml_F_fp' = IF warpx.do_dive_cleaning
                   THEN << MultiFab(ConvertAll(ba, <<1, 1>>), 3, Ngf(warpx), 0) >>
                   ELSE pml_F_fp
    /\ \E msb \in {MultiSigmaBox(ba, LayerGrids, dx, ncell, delta)} :
           IF SigmaAborts(msb) # {}
           THEN /\ sigba_fp' = sigba_fp
                /\ spectral_solver_fp' = spectral_solver_fp
                /\ pc' = "aborted"
                /\ fatal' = msb[CHOOSE k \in SigmaAborts(msb) :
                                   \A l \in SigmaAborts(msb) : k <= l].abort
                /\ UNCHANGED coarse
           ELSE /\ sigba_fp' = << MultiSigmaBoxObject(msb) >>
                /\ IF warpx.solver = "PSATD" /\ ~warpx.use_psatd
                   THEN /\ spectral_solver_fp' = spectral_solver_fp
                        /\ pc' = "aborted"
                        /\ fatal' = "PML: PSATD solver selected but not built."
                        /\ UNCHANGED coarse
                   ELSE /\ spectral_solver_fp' =
                               IF warpx.solver = "PSATD"
                               THEN << [in_pml |-> TRUE, log |-> <<>>] >>
                               ELSE spectral_solver_fp
                        /\ IF cgeom = NoValue
                           THEN /\ pc' = "constructed"
                                /\ fatal' = fatal
                                /\ UNCHANGED coarse
                           ELSE ConstructCoarsePatch
    /\ UNCHANGED << inputs, ba, interior, disk, calls, trace >>

\* ------------------------------------------------------------ operations
MaxOps == 2
MaxDt == 2

\* An operation is called on a constructed object; the run is cut after MaxOps.
Callable == pc = "constructed" /\ Len(trace) < MaxOps

\* Lines 856-867 (no coarse companion: sigba_cp is null).
ComputePMLFactors ==
    /\ Callable
    /\ \E dt \in 1..MaxDt :
          /\ IF sigba_fp # NoValue
             THEN /\ sigba_fp' = << MultiSigmaBoxComputePMLFactorsE(
                                       MultiSigmaBoxComputePMLFactorsB(sigba_fp[1], dx, dt),
                                       dx, dt) >>
                  /\ calls' = FactorCalls(sigba_fp[1], dt)
             ELSE /\ sigba_fp' = sigba_fp
                  /\ calls' = {}
          /\ trace' = Append(trace, [op |-> "ComputePMLFactors", dt |-> dt])
    /\ UNCHANGED << inputs, coarse, pc, fatal, ba, m_ok, fields, spectral_solver_fp,
                    interior, disk >>

\* The three Exchange calls of ExchangeE / ExchangeB (lines 986-988, 1044-1046):
\* [pml, reg], each an array of three MultiFabs.
ExchangeThree(pml3, reg3) ==
    [i \in 1..3 |-> Exchange(pml3[i], reg3[i], PeriodShifts(domain, isPeriodic),
                             do_pml_in_domain)]

\* Lines 1028-1054, called with the interior E and a null coarse array.
ExchangeE ==
    /\ Callable
    /\ IF pml_E_fp # NoValue /\ Efield_fp # NoValue
       THEN \E r \in {ExchangeThree(pml_E_fp[1], Efield_fp[1])} :
                /\ pml_E_fp' = << [i \in 1..3 |-> r[i].pml] >>
                /\ Efield_fp' = << [i \in 1..3 |-> r[i].reg] >>
       ELSE UNCHANGED << pml_E_fp, Efield_fp >>
    /\ trace' = Append(trace, [op |-> "ExchangeE", dt |-> 0])
    /\ calls' = {}
    /\ UNCHANGED << inputs, coarse, pc, fatal, ba, m_ok, pml_B_fp, pml_j_fp, pml_F_fp, sigba_fp,
                    spectral_solver_fp, Bfield_fp, current_fp, F_fp, disk >>

\* Lines 970-996, called with the interior B and a null coarse array.
ExchangeB ==
    /\ Callable
    /\ IF pml_B_fp # NoValue /\ Bfield_fp # NoValue
       THEN \E r \in {ExchangeThree(pml_B_fp[1], Bfield_fp[1])} :
                /\ pml_B_fp' = << [i \in 1..3 |-> r[i].pml] >>
                /\ Bfield_fp' = << [i \in 1..3 |-> r[i].reg] >>
       ELSE UNCHANGED << pml_B_fp, Bfield_fp >>
    /\ trace' = Append(trace, [op |-> "ExchangeB", dt |-> 0])
    /\ calls' = {}
    /\ UNCHANGED << inputs, coarse, pc, fatal, ba, m_ok, pml_E_fp, pml_j_fp, pml_F_fp, sigba_fp,
                    spectral_solver_fp, Efield_fp, current_fp, F_fp, disk >>

\* An ExchangeF that entered Exchange without testing its two pointers.
ExchangeFUnguarded ==
    /\ Callable
    /\ IF pml_F_fp # NoValue /\ F_fp # NoValue
       THEN /\ \E r \in {Exchange(pml_F_fp[1], F_fp[1], PeriodShifts(domain, isPeriodic),
                                  do_pml_in_domain)} :
                  pml_F_fp' = << r.pml >> /\ F_fp' = << r.reg >>
            /\ UNCHANGED << pc, fatal >>
       ELSE /\ pc' = "crashed" /\ fatal' = "SIGSEGV"
            /\ UNCHANGED << pml_F_fp, F_fp >>
    /\ trace' = Append(trace, [op |-> "ExchangeF", dt |-> 0])
    /\ calls' = {}
    /\ UNCHANGED << inputs, coarse, ba, m_ok, pml_E_fp, pml_B_fp, pml_j_fp, sigba_fp,
                    spectral_solver_fp, Efield_fp, Bfield_fp, current_fp, disk >>

\* Lines 1083-1098, called with the interior F and a null coarse field.
ExchangeF ==
    /\ Callable
    /\ IF pml_F_fp # NoValue /\ F_fp # NoValue
       THEN \E r \in {Exchange(pml_F_fp[1], F_fp[1], PeriodShifts(domain, isPeriodic),
                               do_pml_in_domain)} :
                pml_F_fp' = << r.pml >> /\ F_fp' = << r.reg >>
       ELSE UNCHANGED << pml_F_fp, F_fp >>
    /\ trace' = Append(trace, [op |-> "ExchangeF", dt |-> 0])
    /\ calls' = {}
    /\ UNCHANGED << inputs, coarse, pc, fatal, ba, m_ok, pml_E_fp, pml_B_fp, pml_j_fp, sigba_fp,
                    spectral_solver_fp, Efield_fp, Bfield_fp, current_fp, disk >>

\* Lines 1056-1080, called with the interior current and a null coarse array.
CopyJtoPMLs ==
    /\ Callable
    /\ IF pml_j_fp # NoValue /\ current_fp # NoValue
       THEN pml_j_fp' = << [i \in 1..3 |->
                CopyToPML(pml_j_fp[1][i], current_fp[1][i],
                          PeriodShifts(domain, isPeriodic))] >>
       ELSE pml_j_fp' = pml_j_fp
    /\ trace' = Append(trace, [op |-> "CopyJtoPMLs", dt |-> 0])
    /\ calls' = {}
    /\ UNCHANGED << inputs, coarse, pc, fatal, ba, m_ok, pml_E_fp, pml_B_fp, pml_F_fp, sigba_fp,
                    spectral_solver_fp, interior, disk >>

\* Lines 1182-1284: FillBoundaryE, FillBoundaryB, FillBoundaryF on the fine patch.
FillBoundary ==
    /\ Callable
    /\ \E sh \in {PeriodShifts(domain, isPeriodic)} :
           /\ pml_E_fp' = IF pml_E_fp # NoValue /\ pml_E_fp[1][1].ng > 0
                          THEN << [i \in 1..3 |-> FillBoundaryMF(pml_E_fp[1][i], sh)] >>
                          ELSE pml_E_fp
           /\ pml_B_fp' = IF pml_B_fp # NoValue
                          THEN << [i \in 1..3 |-> FillBoundaryMF(pml_B_fp[1][i], sh)] >>
                          ELSE pml_B_fp
           /\ pml_F_fp' = IF pml_F_fp # NoValue /\ pml_F_fp[1].ng > 0
                          THEN << FillBoundaryMF(pml_F_fp[1], sh) >>
                          ELSE pml_F_fp
    /\ trace' = Append(trace, [op |-> "FillBoundary", dt |-> 0])
    /\ calls' = {}
    /\ UNCHANGED << inputs, coarse, pc, fatal, ba, m_ok, pml_j_fp, sigba_fp,
                    spectral_solver_fp, interior, disk >>

\* The directory a checkpoint is written to and read from.
CheckpointDir == "chk/pml_0"

\* The six files of the fine patch, in the order they are written and read
\* (lines 1291-1296, 1325-1330): << name, "E" or "B", component >>.
FineFiles(dir) ==
    << << dir \o "_Ex_fp", "E", 1 >>, << dir \o "_Ey_fp", "E", 2 >>,
       << dir \o "_Ez_fp", "E", 3 >>, << dir \o "_Bx_fp", "B", 1 >>,
       << dir \o "_By_fp", "B", 2 >>, << dir \o "_Bz_fp", "B", 3 >> >>

\* Lines 1286-1318 (pml_E_cp is null).
CheckPoint ==
    /\ Callable
    /\ IF pml_E_fp # NoValue
       THEN LET ff == FineFiles(CheckpointDir)
                names == {ff[k][1] : k \in DOMAIN ff}
                Written(n) == LET k == CHOOSE j \in DOMAIN ff : ff[j][1] = n
                              IN  IF ff[k][2] = "E" THEN pml_E_fp[1][ff[k][3]]
                                  ELSE pml_B_fp[1][ff[k][3]]
            IN  disk' = [n \in names \cup DOMAIN disk |->
                            IF n \in names THEN << Written(n) >> ELSE disk[n]]
       ELSE disk' = disk
    /\ trace' = Append(trace, [op |-> "CheckPoint", dt |-> 0])
    /\ calls' = {}
    /\ UNCHANGED << inputs, coarse, pc, fatal, ba, m_ok, fields, sigba_fp,
                    spectral_solver_fp, interior >>

\* Lines 1320-1352 (pml_E_cp is null).  VisMF::Read of a file that does not exist
\* ends the run.
Restart ==
    /\ Callable
    /\ IF pml_E_fp # NoValue
       THEN LET ff == FineFiles(CheckpointDir)
                Have(k) == ff[k][1] \in DOMAIN disk
                Data(k) == disk[ff[k][1]][1]
            IN  IF \A k \in DOMAIN ff : Have(k)
                THEN /\ pml_E_fp' = << [i \in 1..3 |-> Data(i)] >>
                     /\ pml_B_fp' = << [i \in 1..3 |-> Data(i + 3)] >>
                     /\ UNCHANGED << pc, fatal >>
                ELSE /\ pc' = "aborted"
                     /\ fatal' = "VisMF::Read: file not found"
                     /\ UNCHANGED << pml_E_fp, pml_B_fp >>
       ELSE UNCHANGED << pml_E_fp, pml_B_fp, pc, fatal >>
    /\ trace' = Append(trace, [op |-> "Restart", dt |-> 0])
    /\ calls' = {}
    /\ UNCHANGED << inputs, coarse, ba, m_ok, pml_j_fp, pml_F_fp, sigba_fp,
                    spectral_solver_fp, interior, disk >>

\* Lines 1379-1405: the calls PushPMLPSATDSinglePatch makes on the solver, in
\* order: << call, field, spectral index, component >>.
SplitPairs ==
    << << "E", 1, "Exy", "xy" >>, << "E", 1, "Exz", "xz" >>, << "E", 2, "Eyz", "yz" >>,
       << "E", 2, "Eyx", "yx" >>, << "E", 3, "Ezx", "zx" >>, << "E", 3, "Ezy", "zy" >>,
       << "B", 1, "Bxy", "xy" >>, << "B", 1, "Bxz", "xz" >>, << "B", 2, "Byz", "yz" >>,
       << "B", 2, "Byx", "yx" >>, << "B", 3, "Bzx", "zx" >>, << "B", 3, "Bzy", "zy" >> >>
SolverCalls ==
    [k \in DOMAIN SplitPairs |-> << "ForwardTransform" >> \o SplitPairs[k]]
        \o << << "pushSpectralFields", "", 0, "", "" >> >>
        \o [k \in DOMAIN SplitPairs |-> << "BackwardTransform" >> \o SplitPairs[k]]

\* What the backward transforms leave in a field: the two transformed split
\* components (the first two of each MultiFab) hold the solver's output, here a
\* uniform value handed in by the solver.
AfterBackward(mf, out) == MultiFabSetVal(mf, out, 0, 2, mf.ng)

\* The outcomes of dereferencing the null spectral_solver_fp (line 1359).
NullDereference == {"SIGSEGV", "continues"}
SolverOutputs == {0, 1}

\* Lines 1355-1363, a member only of builds with WARPX_USE_PSATD (line 1354).
\* spectral_solver_fp is dereferenced without a test: undefined when it is null.
PushPSATD ==
    /\ Callable
    /\ warpx.use_psatd
    /\ IF spectral_solver_fp = NoValue
       THEN /\ \E outcome \in NullDereference :
                 /\ pc' = IF outcome = "SIGSEGV" THEN "crashed" ELSE pc
                 /\ fatal' = IF outcome = "SIGSEGV" THEN "SIGSEGV" ELSE fatal
            /\ UNCHANGED << pml_E_fp, pml_B_fp, spectral_solver_fp >>
       ELSE /\ \E out \in SolverOutputs :
                 /\ pml_E_fp' = << [i \in 1..3 |-> AfterBackward(pml_E_fp[1][i], out)] >>
                 /\ pml_B_fp' = << [i \in 1..3 |-> AfterBackward(pml_B_fp[1][i], out)] >>
            /\ spectral_solver_fp' = << [spectral_solver_fp[1] EXCEPT !.log = SolverCalls] >>
            /\ UNCHANGED << pc, fatal >>
    /\ trace' = Append(trace, [op |-> "PushPSATD", dt |-> 0])
    /\ calls' = {}
    /\ UNCHANGED << inputs, coarse, ba, m_ok, pml_j_fp, pml_F_fp, sigba_fp, interior, disk >>

\* ------------------------------------------------------------ inputs
Intervals(n) == {<<a, b>> \in (0..(n - 1)) \X (0..(n - 1)) : a <= b}
BoxesIn(nx, ny) ==
    {MkBox(ix[1], iy[1], ix[2], iy[2]) : ix \in Intervals(nx), iy \in Intervals(ny)}

\* Disjoint boxes have different low corners: order a block set by low corner.
BoxBefore(a, b) == a.lo[2] < b.lo[2] \/ (a.lo[2] = b.lo[2] /\ a.lo[1] < b.lo[1])
RECURSIVE SortedSeq(_)
SortedSeq(S) ==
    IF S = {} THEN <<>>
    ELSE LET m == CHOOSE a \in S : \A b \in S \ {a} : BoxBefore(a, b)
         IN  << m >> \o SortedSeq(S \ {m})

\* Every set of 1..MaxGrids pairwise disjoint boxes of the domain, as a BoxArray.
RECURSIVE DisjointSets(_, _)
DisjointSets(B, n) ==
    IF n = 0 THEN {{}}
    ELSE LET smaller == DisjointSets(B, n - 1)
         IN  smaller \cup
             {S \cup {b} : S \in {T \in smaller : Cardinality(T) = n - 1},
                           b \in {c \in B : TRUE}}
PairwiseDisjoint(S) == \A a \in S : \A b \in S : a = b \/ ~BoxIntersects(a, b)
BlockSets(nx, ny) ==
    {SortedSeq(S) : S \in {T \in DisjointSets(BoxesIn(nx, ny), MaxGrids) :
                               T # {} /\ PairwiseDisjoint(T)}}

Flags == [Dims -> BOOLEAN]

\* The two-dimensional (x, z) Yee staggering of E, B and j in WarpX, with a
\* finite-difference solver and no divergence cleaning.
YeeFDTD ==
    [ixE |-> << <<0, 1>>, <<1, 1>>, <<1, 0>> >>,
     ixB |-> << <<1, 0>>, <<0, 0>>, <<0, 1>> >>,
     ixJ |-> << <<0, 1>>, <<1, 1>>, <<1, 0>> >>,
     solver |-> "Yee", use_psatd |-> FALSE, do_nodal |-> FALSE, nox_fft |-> 16,
     do_dive_cleaning |-> FALSE, do_moving_window |-> FALSE]

\* The layer-enable flags are read only on non-periodic axes (lines 449, 784, 804):
\* on a periodic axis they are left at their default (enabled).
FlagsUsed(per, pmlLo, pmlHi) == \A d \in Dims : per[d] => (pmlLo[d] /\ pmlHi[d])

\* No coarse companion geometry is handed to the constructor (cgeom is null and
\* ref_ratio is not read).
NoCoarseGeom == cgeom = NoValue /\ ref_ratio = <<1, 1>>

\* The coarse-patch members before the constructor reaches line 625: all null.
NoCoarsePatch ==
    /\ cba = <<>>
    /\ pml_E_cp = NoValue /\ pml_B_cp = NoValue
    /\ pml_j_cp = NoValue /\ pml_F_cp = NoValue
    /\ sigba_cp = NoValue
    /\ spectral_solver_cp = NoValue

\* The object at the entry of its constructor: every pointer null.
NullObject ==
    /\ NoCoarsePatch
    /\ pc = "ctor"
    /\ fatal = "none"
    /\ ba = <<>>
    /\ m_ok = FALSE
    /\ pml_E_fp = NoValue
    /\ pml_B_fp = NoValue
    /\ pml_j_fp = NoValue
    /\ pml_F_fp = NoValue
    /\ sigba_fp = NoValue
    /\ spectral_solver_fp = NoValue
    /\ calls = {}
    /\ trace = <<>>

\* The same, with no checkpoint on disk.
InitObject == NullObject /\ disk = [f \in {} |-> NoValue]

\* No interior field is handed to the object.
NoInterior ==
    /\ Efield_fp = NoValue /\ Bfield_fp = NoValue
    /\ current_fp = NoValue /\ F_fp = NoValue

\* Construction on every block set of a small domain.
Init ==
    /\ domain = MkBox(0, 0, DomX - 1, DomY - 1)
    /\ isPeriodic \in Flags
    /\ dx = <<1, 1>>
    /\ grid_ba \in BlockSets(DomX, DomY)
    /\ ncell \in 1..MaxNcell
    /\ delta = ncell
    /\ do_pml_in_domain \in BOOLEAN
    /\ do_pml_Lo \in Flags
    /\ do_pml_Hi \in Flags
    /\ FlagsUsed(isPeriodic, do_pml_Lo, do_pml_Hi)
    /\ warpx = YeeFDTD
    /\ NoCoarseGeom
    /\ NoInterior
    /\ InitObject

Next ==
    \/ CallMakeBoxArray
    \/ ConstructDisabled
    \/ ConstructEnabled

Spec == Init /\ [][Next]_vars

\* ------------------------------------------------------------ a run of operations
RunDomX == 3
RunDomY == 2
RunNcell == 2
InteriorGhost == 2
FieldK == 5

\* The spectral solver with a second-order stencil, and the finite-difference
\* solver with divergence cleaning.
PSATDBuild == [YeeFDTD EXCEPT !.solver = "PSATD", !.use_psatd = TRUE, !.nox_fft = 2]
YeeDiveCleaning == [YeeFDTD EXCEPT !.do_dive_cleaning = TRUE]

\* The interior fields of the level, every point (valid and ghost) holding FieldK.
InteriorField(ix) == MultiFab(ConvertAll(grid_ba, ix), 1, InteriorGhost, FieldK)

\* Construction, then operations, on a level whose blocks cover its domain.
InitRun ==
    /\ domain = MkBox(0, 0, RunDomX - 1, RunDomY - 1)
    /\ isPeriodic \in {per \in Flags : per[2]}
    /\ dx = <<1, 1>>
    /\ grid_ba \in {b \in BlockSets(RunDomX, RunDomY) : CellsOf(b) = Cells(domain)}
    /\ ncell \in 1..RunNcell
    /\ delta = ncell
    /\ do_pml_in_domain \in BOOLEAN
    /\ do_pml_Lo = [d \in Dims |-> TRUE]
    /\ do_pml_Hi = [d \in Dims |-> TRUE]
    /\ warpx \in {YeeFDTD, PSATDBuild, YeeDiveCleaning}
    /\ NoCoarseGeom
    /\ Efield_fp = << [i \in 1..3 |-> InteriorField(warpx.ixE[i])] >>
    /\ Bfield_fp = << [i \in 1..3 |-> InteriorField(warpx.ixB[i])] >>
    /\ current_fp = << [i \in 1..3 |-> InteriorField(warpx.ixJ[i])] >>
    /\ F_fp = IF warpx.do_dive_cleaning THEN << InteriorField(<<1, 1>>) >> ELSE NoValue
    /\ InitObject

NextRun ==
    \/ CallMakeBoxArray
    \/ ConstructDisabled
    \/ ConstructEnabled
    \/ ComputePMLFactors
    \/ ExchangeE
    \/ ExchangeB
    \/ ExchangeF
    \/ CopyJtoPMLs
    \/ FillBoundary
    \/ CheckPoint
    \/ Restart
    \/ PushPSATD

SpecRun == InitRun /\ [][NextRun]_vars

\* ------------------------------------------------------------ two patches
WideX == 7
WideY == 2

\* Construction around two disjoint refinement patches of a wide domain, with the
\* layer outside the patches.
InitPatch ==
    /\ domain = MkBox(0, 0, WideX - 1, WideY - 1)
    /\ isPeriodic \in Flags
    /\ dx = <<1, 1>>
    /\ grid_ba \in {SortedSeq(S) : S \in {T \in DisjointSets(BoxesIn(WideX, WideY), 2) :
                                             Cardinality(T) = 2 /\ PairwiseDisjoint(T)}}
    /\ ncell \in 1..MaxNcell
    /\ delta = ncell
    /\ do_pml_in_domain = FALSE
    /\ do_pml_Lo = [d \in Dims |-> TRUE]
    /\ do_pml_Hi = [d \in Dims |-> TRUE]
    /\ warpx = YeeFDTD
    /\ NoCoarseGeom
    /\ NoInterior
    /\ InitObject

SpecPatch == InitPatch /\ [][Next]_vars

\* ------------------------------------------------------------ one MultiSigmaBox
SigX == 5
SigY == 5

\* Lines 390-394 called on its own: the profiles of the destination blocks ba
\* against the interior blocks grid_ba.
NewMultiSigmaBox ==
    /\ pc = "sigma"
    /\ \E msb \in {MultiSigmaBox(ba, grid_ba, dx, ncell, delta)} :
           IF SigmaAborts(msb) # {}
           THEN /\ sigba_fp' = sigba_fp
                /\ pc' = "aborted"
                /\ fatal' = msb[CHOOSE k \in SigmaAborts(msb) :
                                   \A l \in SigmaAborts(msb) : k <= l].abort
           ELSE /\ sigba_fp' = << MultiSigmaBoxObject(msb) >>
                /\ pc' = "built"
                /\ fatal' = fatal
    /\ UNCHANGED << inputs, coarse, ba, m_ok, fields, spectral_solver_fp, interior, disk,
                    calls, trace >>

\* Any one destination block of the domain, against the domain as a single
\* interior block or against one patch anchored at the domain's low corner.
InitSigma ==
    /\ domain = MkBox(0, 0, SigX - 1, SigY - 1)
    /\ isPeriodic = [d \in Dims |-> FALSE]
    /\ dx = <<1, 1>>
    /\ grid_ba \in {<< g >> : g \in {b \in BoxesIn(SigX, SigY) : b.lo = <<0, 0>>}}
    /\ ncell = 1
    /\ delta = ncell
    /\ do_pml_in_domain = FALSE
    /\ do_pml_Lo = [d \in Dims |-> TRUE]
    /\ do_pml_Hi = [d \in Dims |-> TRUE]
    /\ warpx = YeeFDTD
    /\ NoCoarseGeom
    /\ NoInterior
    /\ ba \in {<< b >> : b \in BoxesIn(SigX, SigY)}
    /\ pc = "sigma"
    /\ fatal = "none"
    /\ m_ok = FALSE
    /\ pml_E_fp = NoValue /\ pml_B_fp = NoValue
    /\ pml_j_fp = NoValue /\ pml_F_fp = NoValue
    /\ NoCoarsePatch
    /\ sigba_fp = NoValue
    /\ spectral_solver_fp = NoValue
    /\ disk = [f \in {} |-> NoValue]
    /\ calls = {}
    /\ trace = <<>>

SpecSigma == InitSigma /\ [][NewMultiSigmaBox]_vars

\* ------------------------------------------------------------ exchanges on data
ExDomX == 3
ExDomY == 2
ExGhost == 1

\* A code of a grid point that is the same for the periodic images of the point.
PointCode(p) ==
    LET w == [d \in Dims |-> IF isPeriodic[d]
                              THEN (p[d] - domain.lo[d]) % BoxLength(domain, d)
                              ELSE p[d] + 4]
    IN  w[1] + 16 * w[2]

\* Field data a solver may have left in a layer array: with q = 1 the value
\* depends on the point and the split component only; with q = 2 it depends on
\* the box as well, so that two boxes disagree on the nodes they share.
LayerValue(q, k, p, c) == (IF q = 2 THEN 1000 * k ELSE 0) + 1 + c + 4 * PointCode(p)

\* The layer array a checkpoint of such data holds: the array of lines 510-522
\* on the layer block set, valid and ghost points.
SavedLayerField(q, layer, ix, ncomp, ng) ==
    [ba |-> ConvertAll(layer, ix), ncomp |-> ncomp, ng |-> ng,
     fab |-> [k \in DOMAIN layer |->
                [p \in Cells(BoxGrow(Convert(layer[k], ix), ng)) |->
                    [c \in 1..ncomp |-> LayerValue(q, k, p, c)]]]]

\* The six files (lines 1291-1296) a checkpoint of an earlier run of the same
\* configuration left in CheckpointDir.
SavedCheckpoint(q, layer) ==
    LET ff == FineFiles(CheckpointDir)
    IN  [n \in {ff[k][1] : k \in DOMAIN ff} |->
            LET k == CHOOSE j \in DOMAIN ff : ff[j][1] = n
            IN  << IF ff[k][2] = "E"
                   THEN SavedLayerField(q, layer, warpx.ixE[ff[k][3]], NcompE(warpx), Nge(warpx))
                   ELSE SavedLayerField(q, layer, warpx.ixB[ff[k][3]], 2, Nge(warpx)) >>]

\* An interior field whose value at a point (valid or ghost) is a code of the
\* point, negative so that it differs from every layer value.
InteriorData(ix, ng) ==
    [ba |-> ConvertAll(grid_ba, ix), ncomp |-> 1, ng |-> ng,
     fab |-> [k \in DOMAIN grid_ba |->
                [p \in Cells(BoxGrow(Convert(grid_ba[k], ix), ng)) |->
                    << 0 - (1 + PointCode(p)) >>]]]

\* Construction on a level whose blocks cover its domain, with the interior
\* fields present or absent and a checkpoint on disk; then restarts, exchanges,
\* copies of the current and ghost fills.
InitExch ==
    /\ domain = MkBox(0, 0, ExDomX - 1, ExDomY - 1)
    /\ isPeriodic \in {per \in Flags : per[1] => per[2]}
    /\ dx = <<1, 1>>
    /\ grid_ba \in {b \in BlockSets(ExDomX, ExDomY) : CellsOf(b) = Cells(domain)}
    /\ ncell = 1
    /\ delta = ncell
    /\ do_pml_in_domain \in BOOLEAN
    /\ do_pml_Lo = [d \in Dims |-> TRUE]
    /\ do_pml_Hi = [d \in Dims |-> TRUE]
    /\ warpx \in {YeeFDTD, YeeDiveCleaning}
    /\ NoCoarseGeom
    /\ \/ NoInterior
       \/ /\ Efield_fp = << [i \in 1..3 |-> InteriorData(warpx.ixE[i], ExGhost)] >>
          /\ Bfield_fp = << [i \in 1..3 |-> InteriorData(warpx.ixB[i], ExGhost)] >>
          /\ current_fp = << [i \in 1..3 |-> InteriorData(warpx.ixJ[i], ExGhost)] >>
          /\ \E ngF \in {0, ExGhost} :
                F_fp = IF warpx.do_dive_cleaning THEN << InteriorData(<<1, 1>>, ngF) >>
                       ELSE NoValue
    /\ NullObject
    /\ \E q \in 1..2 :
          \E r \in {MakeBoxArray(domain, LayerGrids, isPeriodic, ncell,
                                 do_pml_in_domain, do_pml_Lo, do_pml_Hi)} :
              disk = IF r.fatal THEN [f \in {} |-> NoValue] ELSE SavedCheckpoint(q, r.ba)

NextExch ==
    \/ CallMakeBoxArray
    \/ ConstructDisabled
    \/ ConstructEnabled
    \/ Restart
    \/ ExchangeE
    \/ ExchangeB
    \/ ExchangeF
    \/ CopyJtoPMLs
    \/ FillBoundary

SpecExch == InitExch /\ [][NextExch]_vars

\* ------------------------------------------------------------ SigmaBox, 3D build
\* The neighbour classes and fills of the constructor as compiled with
\* AMREX_SPACEDIM == 3 (the #if branches of lines 165-167, 182-202, 215-217,
\* 227-229, 242-280, 287-289).  A box here is [lo, hi] with index triples.
SpaceDim3 == 3
Dims3 == 1..SpaceDim3
Sig3 == 3

Box3Ok(b) == \A d \in Dims3 : b.lo[d] <= b.hi[d]
Box3And(a, b) ==
    [lo |-> [d \in Dims3 |-> Max2(a.lo[d], b.lo[d])],
     hi |-> [d \in Dims3 |-> Min2(a.hi[d], b.hi[d])]]
Box3Intersects(a, b) == Box3Ok(Box3And(a, b))
Box3GrowDim(b, idim, n) ==
    [lo |-> [d \in Dims3 |-> IF d = idim THEN b.lo[d] - n ELSE b.lo[d]],
     hi |-> [d \in Dims3 |-> IF d = idim THEN b.hi[d] + n ELSE b.hi[d]]]

\* Lines 164, 166: jdim = (idim+1) % 3 and kdim = (idim+2) % 3, axes from 1.
Jdim3(idim) == (idim % SpaceDim3) + 1
Kdim3(idim) == ((idim + 1) % SpaceDim3) + 1

\* grid_box grown by nc along the two axes other than idim.
GrowSides3(b, idim, nc) == Box3GrowDim(Box3GrowDim(b, Jdim3(idim), nc), Kdim3(idim), nc)

\* Lines 174-206: the class of one neighbour on axis idim.
Classify3(box, grid_box, idim, nc) ==
    IF Box3Intersects(Box3GrowDim(grid_box, idim, nc), box) THEN "direct_face"
    ELSE IF Box3Intersects(Box3GrowDim(grid_box, Jdim3(idim), nc), box) THEN "side_face"
    ELSE IF Box3Intersects(Box3GrowDim(grid_box, Kdim3(idim), nc), box) THEN "side_face"
    ELSE IF Box3Intersects(Box3GrowDim(Box3GrowDim(grid_box, idim, nc), Jdim3(idim), nc), box)
    THEN "direct_side_edge"
    ELSE IF Box3Intersects(Box3GrowDim(Box3GrowDim(grid_box, idim, nc), Kdim3(idim), nc), box)
    THEN "direct_side_edge"
    ELSE IF Box3Intersects(GrowSides3(grid_box, idim, nc), box) THEN "side_side_edge"
    ELSE "corner"

\* The classes whose loop calls FillZero (lines 243-254, 282-296); the loops of
\* the other classes call FillLo and FillHi (lines 209-240, 256-279, 298-321).
ZeroFilled3 == {"side_face", "side_side_edge"}

\* The overlap a FillZero loop works on (lines 246, 288).
ZeroOverlap3(box, grid_box, idim, nc) == Box3And(GrowSides3(grid_box, idim, nc), box)

\* The low and high overlaps of a FillLo / FillHi loop: the adjacent cells of
\* the neighbour, grown sideways for corners and direct side edges (lines
\* 213-218, 225-230, 260-261, 268-269) and as they are for direct faces (lines
\* 302-303, 310-311).
LoOverlap3(cat, box, grid_box, idim, nc) ==
    IF cat = "direct_face" THEN Box3And(AdjCellLo(grid_box, idim, nc), box)
    ELSE Box3And(GrowSides3(AdjCellLo(grid_box, idim, nc), idim, nc), box)
HiOverlap3(cat, box, grid_box, idim, nc) ==
    IF cat = "direct_face" THEN Box3And(AdjCellHi(grid_box, idim, nc), box)
    ELSE Box3And(GrowSides3(AdjCellHi(grid_box, idim, nc), idim, nc), box)

\* The word each loop puts in its abort message (lines 238, 252, 277, 294, 319).
AbortWord3(cat) ==
    IF cat = "corner" THEN "corners"
    ELSE IF cat = "side_face" THEN "side_faces"
    ELSE IF cat = "side_side_edge" THEN "side_side_edges"
    ELSE IF cat = "direct_side_edge" THEN "direct_side_edges"
    ELSE "direct faces"

\* One neighbour on one axis: [abort, sig] after its loop body.
FillNeighbour3(cat, st, box, grid_box, idim, nc, fac) ==
    IF cat \in ZeroFilled3
    THEN IF Box3Ok(ZeroOverlap3(box, grid_box, idim, nc))
         THEN [st EXCEPT !.sig = FillZero(idim, @, ZeroOverlap3(box, grid_box, idim, nc))]
         ELSE [st EXCEPT !.abort = AbortWord3(cat)]
    ELSE IF ~Box3Ok(LoOverlap3(cat, box, grid_box, idim, nc))
            /\ ~Box3Ok(HiOverlap3(cat, box, grid_box, idim, nc))
    THEN [st EXCEPT !.abort = AbortWord3(cat)]
    ELSE IF ~Box3Ok(HiOverlap3(cat, box, grid_box, idim, nc))
    THEN [st EXCEPT !.sig = FillLo(idim, @, LoOverlap3(cat, box, grid_box, idim, nc),
                                   grid_box, fac)]
    ELSE IF ~Box3Ok(LoOverlap3(cat, box, grid_box, idim, nc))
    THEN [st EXCEPT !.sig = FillHi(idim, @, HiOverlap3(cat, box, grid_box, idim, nc),
                                   grid_box, fac)]
    ELSE [st EXCEPT !.sig = FillHi(idim,
                                FillLo(idim, @, LoOverlap3(cat, box, grid_box, idim, nc),
                                       grid_box, fac),
                                HiOverlap3(cat, box, grid_box, idim, nc), grid_box, fac)]

\* Line 160 for a single interior block: it is a neighbour when its box grown by
\* nc on every axis meets the destination box.
IsNeighbour3(box, grid_box, nc) ==
    Box3Intersects(Box3GrowDim(GrowSides3(grid_box, 1, nc), 1, nc), box)

\* Line 160: the interior blocks that are neighbours of the destination box, in
\* index order.
Isects3(box, grids, nc) ==
    SelectSeq([k \in DOMAIN grids |-> k], LAMBDA k : IsNeighbour3(box, grids[k], nc))

\* A constructor whose loops run in the opposite order.
ClassOrder3Reversed ==
    << "direct_face", "side_face", "direct_side_edge", "side_side_edge", "corner" >>

\* The order of the loops over the classes within one axis (lines 209, 243, 256,
\* 282, 298).
ClassOrder3 == << "corner", "side_side_edge", "direct_side_edge", "side_face", "direct_face" >>

\* The loop over the neighbours gids of one class, in the order of isects.
\* Nothing runs after an abort.
RECURSIVE FillClass3(_, _, _, _, _, _, _, _)
FillClass3(cat, gids, st, box, grids, idim, nc, fac) ==
    IF gids = <<>> \/ st.abort # "none" THEN st
    ELSE FillClass3(cat, Tail(gids),
                    FillNeighbour3(cat, st, box, grids[Head(gids)], idim, nc, fac),
                    box, grids, idim, nc, fac)

\* The loops of the classes, one after the other.
RECURSIVE FillClasses3(_, _, _, _, _, _, _)
FillClasses3(order, st, box, grids, idim, nc, fac) ==
    IF order = <<>> THEN st
    ELSE FillClasses3(Tail(order),
             FillClass3(Head(order),
                        SelectSeq(Isects3(box, grids, nc),
                                  LAMBDA k : Classify3(box, grids[k], idim, nc) = Head(order)),
                        st, box, grids, idim, nc, fac),
             box, grids, idim, nc, fac)

\* Lines 162-326: one axis, ending with the test that at most one direct face
\* exists.
SigmaAxis3(box, grids, idim, nc, fac) ==
    CheckDirectFaces(
        FillClasses3(ClassOrder3, [abort |-> "none", sig |-> NewSigma(box, idim)],
                     box, grids, idim, nc, fac),
        Len(SelectSeq(Isects3(box, grids, nc),
                      LAMBDA k : Classify3(box, grids[k], idim, nc) = "direct_face")))

\* Lines 118-329, three-dimensional build.
SigmaBox3(box, grids, cellsize, nc, dl) ==
    LET ax == [idim \in Dims3 |->
                 SigmaAxis3(box, grids, idim, nc, Fac(cellsize, dl, idim))]
    IN  [abort |-> IF \A idim \in Dims3 : ax[idim].abort = "none" THEN "none"
                   ELSE ax[CHOOSE d \in Dims3 : ax[d].abort # "none" /\
                               \A e \in Dims3 : ax[e].abort # "none" => d <= e].abort,
         prof |-> [idim \in Dims3 |-> ax[idim].sig],
         fac |-> [idim \in Dims3 |-> NewFactors(box, idim)]]

\* The constructor called for the destination block ba[1] against the interior
\* blocks grid_ba.
NewSigmaBox3 ==
    /\ pc = "sigma3"
    /\ \E sb \in {SigmaBox3(ba[1], grid_ba, dx, ncell, delta)} :
           IF sb.abort # "none"
           THEN /\ sigba_fp' = sigba_fp
                /\ pc' = "aborted"
                /\ fatal' = sb.abort
           ELSE /\ sigba_fp' = << MultiSigmaBoxObject(<< sb >>) >>
                /\ pc' = "built"
                /\ fatal' = fatal
    /\ UNCHANGED << inputs, coarse, ba, m_ok, fields, spectral_solver_fp, interior, disk,
                    calls, trace >>

\* The boxes of the cube [0, n-1]^3.
Boxes3In(n) ==
    {[lo |-> << ix[1], iy[1], iz[1] >>, hi |-> << ix[2], iy[2], iz[2] >>] :
        ix \in Intervals(n), iy \in Intervals(n), iz \in Intervals(n)}

\* Any destination block of the cube against one of the given sets of interior
\* blocks, with a layer one cell deep.
InitSigma3On(gridSets) ==
    /\ domain = [lo |-> <<0, 0, 0>>, hi |-> << Sig3 - 1, Sig3 - 1, Sig3 - 1 >>]
    /\ isPeriodic = [d \in Dims3 |-> FALSE]
    /\ dx = <<1, 1, 1>>
    /\ grid_ba \in gridSets
    /\ ncell = 1
    /\ delta = ncell
    /\ do_pml_in_domain = FALSE
    /\ do_pml_Lo = [d \in Dims3 |-> TRUE]
    /\ do_pml_Hi = [d \in Dims3 |-> TRUE]
    /\ warpx = YeeFDTD
    /\ NoCoarseGeom
    /\ NoInterior
    /\ ba \in {<< b >> : b \in Boxes3In(Sig3)}
    /\ pc = "sigma3"
    /\ fatal = "none"
    /\ m_ok = FALSE
    /\ pml_E_fp = NoValue /\ pml_B_fp = NoValue
    /\ pml_j_fp = NoValue /\ pml_F_fp = NoValue
    /\ NoCoarsePatch
    /\ sigba_fp = NoValue
    /\ spectral_solver_fp = NoValue
    /\ disk = [f \in {} |-> NoValue]
    /\ calls = {}
    /\ trace = <<>>

\* The centre cell of the cube as the only interior block.
InitSigma3 == InitSigma3On({<< [lo |-> <<1, 1, 1>>, hi |-> <<1, 1, 1>>] >>})

SpecSigma3 == InitSigma3 /\ [][NewSigmaBox3]_vars

\* Two interior blocks, each one cell of the cube, in either order, around the
\* centre cell as the destination block.
InitSigma3Two ==
    /\ InitSigma3On({<< g, h >> : g \in {b \in Boxes3In(Sig3) : b.lo = b.hi},
                                  h \in {b \in Boxes3In(Sig3) : b.lo = b.hi}})
    /\ grid_ba[1] # grid_ba[2]
    /\ ba[1] = [lo |-> <<1, 1, 1>>, hi |-> <<1, 1, 1>>]
    /\ \A k \in DOMAIN grid_ba : ~Box3Intersects(grid_ba[k], ba[1])

SpecSigma3Two == InitSigma3Two /\ [][NewSigmaBox3]_vars

\* ------------------------------------------------------------ the spectral push
PsDomX == 3
PsDomY == 2

\* The spectral solver together with divergence cleaning: the constructor
\* allocates three split components for E (line 508) and builds the solver.
PSATDDiveCleaning == [PSATDBuild EXCEPT !.do_dive_cleaning = TRUE]

\* Construction of a WARPX_USE_PSATD build on every block set of a small domain,
\* with and without divergence cleaning, then spectral pushes.
InitPsatd ==
    /\ domain = MkBox(0, 0, PsDomX - 1, PsDomY - 1)
    /\ isPeriodic \in Flags
    /\ dx = <<1, 1>>
    /\ grid_ba \in BlockSets(PsDomX, PsDomY)
    /\ ncell = 1
    /\ delta = ncell
    /\ do_pml_in_domain \in BOOLEAN
    /\ do_pml_Lo = [d \in Dims |-> TRUE]
    /\ do_pml_Hi = [d \in Dims |-> TRUE]
    /\ warpx \in {PSATDBuild, PSATDDiveCleaning}
    /\ NoCoarseGeom
    /\ NoInterior
    /\ InitObject

NextPsatd ==
    \/ CallMakeBoxArray
    \/ ConstructDisabled
    \/ ConstructEnabled
    \/ PushPSATD

SpecPsatd == InitPsatd /\ [][NextPsatd]_vars

\* ------------------------------------------------------------ a coarse companion
CoDomX == 3
CoDomY == 2
CoRatio == 2
CoNcell == 2

\* BoxArray::refine: the fine blocks that cover the coarse ones.
Refine(b, ratio) ==
    [lo |-> [d \in Dims |-> b.lo[d] * ratio[d]],
     hi |-> [d \in Dims |-> (b.hi[d] + 1) * ratio[d] - 1]]

\* Construction on a refined level: the fine domain and blocks are the
\* refinement by ref_ratio of a coarse domain and of any block set of it, and
\* cgeom is the coarse geometry.
InitCoarse ==
    /\ ref_ratio = [d \in Dims |-> CoRatio]
    /\ isPeriodic \in Flags
    /\ \E cdom \in {MkBox(0, 0, CoDomX - 1, CoDomY - 1)} :
          /\ cgeom = << [domain |-> cdom, isPeriodic |-> isPeriodic,
                         dx |-> [d \in Dims |-> ref_ratio[d]]] >>
          /\ domain = Refine(cdom, ref_ratio)
    /\ dx = <<1, 1>>
    /\ grid_ba \in {[k \in DOMAIN b |-> Refine(b[k], ref_ratio)] :
                       b \in BlockSets(CoDomX, CoDomY)}
    /\ ncell \in 1..CoNcell
    /\ delta = ncell
    /\ do_pml_in_domain \in BOOLEAN
    /\ do_pml_Lo = [d \in Dims |-> TRUE]
    /\ do_pml_Hi = [d \in Dims |-> TRUE]
    /\ warpx = YeeFDTD
    /\ NoInterior
    /\ InitObject

SpecCoarse == InitCoarse /\ [][Next]_vars

\* ------------------------------------------------------------ claims
BlockingFactorMsg == "Consider using larger amr.blocking_factor with PMLs"

\* MakeBoxArray has returned a block set to the constructor (now held in ba).
Returned == pc = "made"

\* The list bl of the call, before the overlap removal.
RawLayerBoxes ==
    CollectLayerBoxes(domain, LayerGrids, isPeriodic, ncell, do_pml_Lo, do_pml_Hi)

\* The layer is active on axis d: not periodic, low or high side enabled.
ActiveAxis(d) == ~isPeriodic[d] /\ (do_pml_Lo[d] \/ do_pml_Hi[d])

\* C1: whenever MakeBoxArray returns, the boxes of the returned block set are
\* pairwise disjoint: no cell belongs to two of them.
C1_LayerBlocksDisjoint ==
    Returned => \A i \in DOMAIN ba : \A j \in DOMAIN ba :
                    i # j => Cells(ba[i]) \cap Cells(ba[j]) = {}

\* C1 witness: a return whose collected list held two overlapping boxes, so the
\* overlap removal had something to remove.
C1_Witness ==
    /\ Returned
    /\ Len(ba) >= 2
    /\ \E i \in DOMAIN RawLayerBoxes : \E j \in DOMAIN RawLayerBoxes :
           i # j /\ BoxIntersects(RawLayerBoxes[i], RawLayerBoxes[j])

\* The region the layer is to tile: every cell of the grown domain within ncell
\* of some interior block, less the cells the interior blocks cover.
PaddingRegion ==
    LET dom == GrownDomain(domain, isPeriodic, ncell, do_pml_Lo, do_pml_Hi)
        g == LayerGrids
    IN  (UNION {Cells(BoxGrow(g[k], ncell)) \cap Cells(dom) : k \in DOMAIN g})
            \ CellsOf(g)

\* C2 (as claimed): whenever MakeBoxArray returns, the union of the layer blocks is
\* exactly the padding region: no gap and nothing outside it.
C2_LayerCoversPadding == Returned => CellsOf(ba) = PaddingRegion

\* C3: with layer-in-domain disabled, the call ends in the blocking-factor error
\* exactly when ncell >= the length of some interior block along an active axis.
C3_BlockingFactorError ==
    (pc # "ctor" /\ ~do_pml_in_domain) =>
        ((fatal = BlockingFactorMsg) <=>
            \E k \in DOMAIN grid_ba : \E d \in Dims :
                ActiveAxis(d) /\ ncell >= grid_ba[k].hi[d] - grid_ba[k].lo[d] + 1)

\* C3 witness: the error raised for a block exactly ncell cells long on an active
\* axis (and no block shorter than ncell on any active axis).
C3_Witness ==
    /\ pc = "aborted" /\ fatal = BlockingFactorMsg /\ ~do_pml_in_domain
    /\ \E k \in DOMAIN grid_ba : \E d \in Dims :
           ActiveAxis(d) /\ BoxLength(grid_ba[k], d) = ncell
    /\ \A k \in DOMAIN grid_ba : \A d \in Dims :
           ActiveAxis(d) => BoxLength(grid_ba[k], d) >= ncell

\* C5: when MakeBoxArray yields an empty block set the constructor completes with
\* no fatal error, m_ok = false, and nothing allocated.
C5_EmptyBlockSetDisables ==
    (pc \in {"constructed", "aborted"} /\ fatal # BlockingFactorMsg /\ Len(ba) = 0) =>
        /\ pc = "constructed"
        /\ fatal = "none"
        /\ m_ok = FALSE
        /\ pml_E_fp = NoValue /\ pml_B_fp = NoValue
        /\ pml_j_fp = NoValue /\ pml_F_fp = NoValue
        /\ sigba_fp = NoValue
        /\ spectral_solver_fp = NoValue

\* C5 witness: a disabled layer on a fully periodic domain covered by two blocks.
C5_Witness ==
    /\ pc = "constructed" /\ Len(ba) = 0 /\ m_ok = FALSE
    /\ \A d \in Dims : isPeriodic[d]
    /\ Len(grid_ba) = 2
    /\ CellsOf(grid_ba) = Cells(domain)

\* The distance between two blocks along axis d when a lies below b.
Gap(a, b, d) == b.lo[d] - a.hi[d] - 1

\* Two interior blocks lie closer together than ncell cells (though apart) along
\* an active axis, and the ncell-grown regions around them overlap.
CloseBlocks ==
    \E i \in DOMAIN grid_ba : \E j \in DOMAIN grid_ba : \E d \in Dims :
        /\ i # j
        /\ ActiveAxis(d)
        /\ 1 <= Gap(grid_ba[i], grid_ba[j], d)
        /\ Gap(grid_ba[i], grid_ba[j], d) < ncell
        /\ BoxIntersects(BoxGrow(grid_ba[i], ncell), BoxGrow(grid_ba[j], ncell))

\* C4 (as claimed): with layer-in-domain disabled, when two interior blocks lie
\* closer together than ncell cells along an active axis, so that their grown
\* layer regions overlap, construction never completes: it ends in a fatal error.
C4_CloseBlocksRejected ==
    (~do_pml_in_domain /\ CloseBlocks) => pc # "constructed"

\* The object has been constructed in the disabled state.
Disabled == pc = "constructed" /\ ~m_ok

\* C6 (as claimed): every operation called on a disabled object is a no-op: it
\* changes no layer state and no interior field and raises no error.
C6_DisabledOpsAreNoOps ==
    [][Disabled =>
          UNCHANGED << pc, fatal, ba, m_ok, fields, sigba_fp, spectral_solver_fp,
                       interior, disk >>]_vars

\* Block k of the layer lies directly outside the low face, along axis d, of its
\* direct-face neighbour g.
LowDirectFace(k, g, d) ==
    /\ ba[k].hi[d] < LayerGrids[g].lo[d]
    /\ BoxIntersects(BoxGrowDim(LayerGrids[g], d, ncell), ba[k])

\* The profile entries of block k along d agree with the low-face formula of
\* neighbour g at every index of lo..hi+1 that is at least first.
LowFaceFormula(k, g, d, first) ==
    \A i \in Max2(ba[k].lo[d], first)..(ba[k].hi[d] + 1) :
        /\ FracEq(sigba_fp[1].sb[k].prof[d].sigma[i],
                  Frac(4 * (LayerGrids[g].lo[d] - i) * (LayerGrids[g].lo[d] - i),
                       dx[d] * delta * delta))
        /\ FracEq(sigba_fp[1].sb[k].prof[d].sigma_cumsum[i],
                  Frac(4 * (LayerGrids[g].lo[d] - i) * (LayerGrids[g].lo[d] - i)
                         * (LayerGrids[g].lo[d] - i),
                       3 * dx[d] * delta * delta))

\* C7 (as claimed): in a constructed layer, a block directly outside the low face
\* along d of its direct-face neighbour with low edge glo has, at every index i
\* of [lo, hi+1], sigma[d][i] = fac*(glo-i)^2 and sigma_cumsum[d][i] =
\* fac*(glo-i)^3/(3c), with fac = 4c/(dx_d*delta^2).
C7_LowFaceProfileWholeRange ==
    (pc = "constructed" /\ sigba_fp # NoValue) =>
        \A k \in DOMAIN ba : \A g \in DOMAIN LayerGrids : \A d \in Dims :
            LowDirectFace(k, g, d) => LowFaceFormula(k, g, d, ba[k].lo[d])

\* C7 (amended): the same two equalities hold at every index i of [lo, hi+1]
\* that lies within ncell cells of the face, glo - ncell <= i; the entries of a
\* longer block further from the face are left to the other neighbours.
C7_LowFaceProfile ==
    (pc = "constructed" /\ sigba_fp # NoValue) =>
        \A k \in DOMAIN ba : \A g \in DOMAIN LayerGrids : \A d \in Dims :
            LowDirectFace(k, g, d) =>
                LowFaceFormula(k, g, d, LayerGrids[g].lo[d] - ncell)

\* C7 witness: a constructed layer of depth 2 with such a block two cells deep,
\* whose profile is 4c/dx at its low index.
C7_Witness ==
    /\ pc = "constructed" /\ sigba_fp # NoValue /\ ncell = 2
    /\ \E k \in DOMAIN ba : \E g \in DOMAIN LayerGrids : \E d \in Dims :
           /\ LowDirectFace(k, g, d)
           /\ BoxLength(ba[k], d) = 2
           /\ FracEq(sigba_fp[1].sb[k].prof[d].sigma[ba[k].lo[d]], Frac(4, 1))

\* The destination block of a lone MultiSigmaBox lies inside the domain by more
\* than ncell cells on every side.
DeepInside(b) == BoxContains(domain, BoxGrow(b, ncell + 1))

ComputeStep ==
    /\ sigba_fp # NoValue
    /\ Len(trace') = Len(trace) + 1
    /\ trace'[Len(trace')].op = "ComputePMLFactors"

\* The E (or B) factor arrays of a MultiSigmaBox.
FactorsE(o) == [k \in DOMAIN o.sb |-> [d \in Dims |->
                  << o.sb[k].fac[d].sigma_fac, o.sb[k].fac[d].sigma_cumsum_fac >>]]
FactorsB(o) == [k \in DOMAIN o.sb |-> [d \in Dims |->
                  << o.sb[k].fac[d].sigma_star_fac, o.sb[k].fac[d].sigma_star_cumsum_fac >>]]

\* Every element of the E (or B) factor arrays is the exponential the code
\* computes from the profile with time step dt.
FreshE(o, dt) ==
    \A k \in DOMAIN o.sb : \A d \in Dims : \A i \in DOMAIN o.sb[k].prof[d].sigma :
        /\ o.sb[k].fac[d].sigma_fac[i] = ExpNeg(o.sb[k].prof[d].sigma[i], dt)
        /\ o.sb[k].fac[d].sigma_cumsum_fac[i] = ExpNeg(o.sb[k].prof[d].sigma_cumsum[i], dx[d])
FreshB(o, dt) ==
    \A k \in DOMAIN o.sb : \A d \in Dims : \A i \in DOMAIN o.sb[k].prof[d].sigma :
        /\ o.sb[k].fac[d].sigma_star_fac[i] = ExpNeg(o.sb[k].prof[d].sigma_star[i], dt)
        /\ o.sb[k].fac[d].sigma_star_cumsum_fac[i] =
               ExpNeg(o.sb[k].prof[d].sigma_star_cumsum[i], dx[d])

\* C9: a ComputePMLFactors call reaches MultiSigmaBox::ComputePMLFactorsE (and B)
\* with its dt.  With dt equal to the cached dt no block is recomputed and the
\* factor arrays stay as they were; with a different dt every block is
\* recomputed, every element is the exponential for the new dt, and the new dt
\* is recorded.
C9_FactorCache ==
    [][ComputeStep =>
          LET o == sigba_fp[1]
              n == sigba_fp'[1]
              dt == trace'[Len(trace')].dt
          IN  /\ IF dt = o.dt_E
                 THEN /\ FactorsE(n) = FactorsE(o)
                      /\ {c \in calls' : c[1] = "E"} = {}
                 ELSE /\ FreshE(n, dt)
                      /\ {c \in calls' : c[1] = "E"} = {<< "E", k >> : k \in DOMAIN o.sb}
              /\ IF dt = o.dt_B
                 THEN /\ FactorsB(n) = FactorsB(o)
                      /\ {c \in calls' : c[1] = "B"} = {}
                 ELSE /\ FreshB(n, dt)
                      /\ {c \in calls' : c[1] = "B"} = {<< "B", k >> : k \in DOMAIN o.sb}
              /\ n.dt_E = dt /\ n.dt_B = dt]_vars

\* C9 witness: a second call with the time step of the first made no per-block
\* call and left the factors of the first call in place.
C9_Witness ==
    /\ sigba_fp # NoValue /\ Len(trace) = 2
    /\ trace[1].op = "ComputePMLFactors" /\ trace[2] = trace[1]
    /\ calls = {}
    /\ FreshE(sigba_fp[1], trace[1].dt) /\ FreshB(sigba_fp[1], trace[1].dt)
    /\ \E k \in DOMAIN ba : \E d \in Dims : \E i \in DOMAIN sigba_fp[1].sb[k].prof[d].sigma :
           ~FracIsZero(sigba_fp[1].sb[k].prof[d].sigma[i])

\* The interior E started at FieldK with a fresh layer, and ExchangeE has run
\* twice, with the layer outside the domain.
RoundTrip ==
    /\ ~do_pml_in_domain /\ m_ok /\ pc = "constructed" /\ Len(trace) = 2
    /\ trace[1].op = "ExchangeE" /\ trace[2].op = "ExchangeE"

\* The points of a MultiFab, as << box, point >>.
Points(mf) == UNION {{k} \X DOMAIN mf.fab[k] : k \in DOMAIN mf.ba}

\* Point p is, up to a periodic shift, a valid point of some box of mf.
ValidSomewhere(p, mf) ==
    \E j \in DOMAIN PeriodShifts(domain, isPeriodic) : \E b \in DOMAIN mf.ba :
        InBox(<< p[1] - PeriodShifts(domain, isPeriodic)[j][1],
                 p[2] - PeriodShifts(domain, isPeriodic)[j][2] >>, mf.ba[b])

\* C10 (as claimed): after the round trip every point of the interior field,
\* valid or ghost, holds FieldK.
C10_RoundTripAllK ==
    RoundTrip => \A i \in 1..3 : \A kp \in Points(Efield_fp[1][i]) :
                    Efield_fp[1][i].fab[kp[1]][kp[2]][1] = FieldK

\* C10 (amended): after the round trip every valid point of the interior field
\* still holds FieldK; a ghost point that is a valid point of the layer and of no
\* interior box holds the layer's value 0, and every other ghost point holds
\* FieldK.
C10_RoundTrip ==
    RoundTrip => \A i \in 1..3 : \A kp \in Points(Efield_fp[1][i]) :
        Efield_fp[1][i].fab[kp[1]][kp[2]][1] =
            IF /\ ~InBox(kp[2], Efield_fp[1][i].ba[kp[1]])
               /\ ValidSomewhere(kp[2], pml_E_fp[1][i])
               /\ ~ValidSomewhere(kp[2], Efield_fp[1][i])
            THEN 0 ELSE FieldK

\* C10 witness: a round trip after which some ghost point holds 0 and some ghost
\* point still holds FieldK.
C10_Witness ==
    /\ RoundTrip
    /\ \E kp \in Points(Efield_fp[1][1]) :
           /\ ~InBox(kp[2], Efield_fp[1][1].ba[kp[1]])
           /\ Efield_fp[1][1].fab[kp[1]][kp[2]][1] = 0
    /\ \E kp \in Points(Efield_fp[1][1]) :
           /\ ~InBox(kp[2], Efield_fp[1][1].ba[kp[1]])
           /\ Efield_fp[1][1].fab[kp[1]][kp[2]][1] = FieldK

\* The last operation called on the object was op.
LastOpIs(op) == Len(trace) > 0 /\ trace[Len(trace)].op = op

\* The << layer array, interior array >> pairs the last operation, an exchange,
\* was applied to, as they are after the call.
Exchanged ==
    IF LastOpIs("ExchangeE") /\ pml_E_fp # NoValue /\ Efield_fp # NoValue
    THEN {<< pml_E_fp[1][i], Efield_fp[1][i] >> : i \in 1..3}
    ELSE IF LastOpIs("ExchangeB") /\ pml_B_fp # NoValue /\ Bfield_fp # NoValue
    THEN {<< pml_B_fp[1][i], Bfield_fp[1][i] >> : i \in 1..3}
    ELSE IF LastOpIs("ExchangeF") /\ pml_F_fp # NoValue /\ F_fp # NoValue
    THEN {<< pml_F_fp[1], F_fp[1] >>}
    ELSE {}

\* The places << box b, point >> of mf that coincide with point p, directly or
\* through a periodic shift, and lie within ng of the valid box.
PlacesOf(p, mf, ng) ==
    {bq \in UNION {{b} \X {<< p[1] - PeriodShifts(domain, isPeriodic)[j][1],
                              p[2] - PeriodShifts(domain, isPeriodic)[j][2] >> :
                                j \in DOMAIN PeriodShifts(domain, isPeriodic)} :
                      b \in DOMAIN mf.ba} :
        InBox(bq[2], BoxGrow(mf.ba[bq[1]], ng))}

\* The valid points of mf, as << box, point >>.
ValidPoints(mf) == {kp \in Points(mf) : InBox(kp[2], mf.ba[kp[1]])}

\* The sum of the split components held at one point.
SplitSum(v) == IF Len(v) = 3 THEN v[1] + v[2] + v[3] ELSE v[1] + v[2]

\* C11: with the layer in the domain, after an exchange every interior valid
\* point that coincides with a layer valid point holds the sum of the split
\* components the layer holds at that point after the call.
C11_InteriorHoldsLayerSum ==
    do_pml_in_domain =>
        \A pr \in Exchanged : \A kp \in ValidPoints(pr[2]) :
            \A bq \in PlacesOf(kp[2], pr[1], 0) :
                pr[2].fab[kp[1]][kp[2]][1] = SplitSum(pr[1].fab[bq[1]][bq[2]])

\* C11 witness: an exchange of E after a restart, with three split components,
\* left the sum of the restored layer data in an interior valid point.
C11_Witness ==
    /\ do_pml_in_domain /\ Len(trace) = 2 /\ trace[1].op = "Restart"
    /\ LastOpIs("ExchangeE") /\ warpx.do_dive_cleaning
    /\ \E pr \in Exchanged : \E kp \in ValidPoints(pr[2]) :
           /\ PlacesOf(kp[2], pr[1], 0) # {}
           /\ pr[2].fab[kp[1]][kp[2]][1] > 0

\* C12: with the layer outside the domain, after an exchange every point of
\* the layer, valid or ghost, that coincides with an interior valid point holds
\* the interior value in its first split component and 0 in the others.
C12_LayerHoldsInterior ==
    ~do_pml_in_domain =>
        \A pr \in Exchanged : \A kp \in ValidPoints(pr[2]) :
            \A bq \in PlacesOf(kp[2], pr[1], pr[1].ng) :
                /\ pr[1].fab[bq[1]][bq[2]][1] = pr[2].fab[kp[1]][kp[2]][1]
                /\ \A c \in 2..pr[1].ncomp : pr[1].fab[bq[1]][bq[2]][c] = 0

\* C12 witness: an exchange of E after a restart, with three split components,
\* left an interior value in a ghost point of the layer and in a valid one.
C12_Witness ==
    /\ ~do_pml_in_domain /\ Len(trace) = 2 /\ trace[1].op = "Restart"
    /\ LastOpIs("ExchangeE") /\ warpx.do_dive_cleaning
    /\ \E pr \in Exchanged : \E kp \in ValidPoints(pr[2]) :
         \E bq \in PlacesOf(kp[2], pr[1], pr[1].ng) :
           /\ ~InBox(bq[2], pr[1].ba[bq[1]])
           /\ pr[1].fab[bq[1]][bq[2]][1] < 0
    /\ \E pr \in Exchanged : \E kp \in ValidPoints(pr[2]) :
           PlacesOf(kp[2], pr[1], 0) # {}

\* The step is a call of op.
StepOf(op) == Len(trace') = Len(trace) + 1 /\ trace'[Len(trace')].op = op

\* A call of CopyJtoPMLs that reaches CopyToPML.
CopyStep == StepOf("CopyJtoPMLs") /\ pml_j_fp # NoValue /\ current_fp # NoValue

\* CopyToPML gave every ghost point of the layer that coincides with an interior
\* valid point the interior value.
GhostsTakeInterior ==
    \A i \in 1..3 : \A kp \in ValidPoints(current_fp[1][i]) :
        \A bq \in PlacesOf(kp[2], pml_j_fp[1][i], pml_j_fp[1][i].ng) :
            InBox(bq[2], pml_j_fp[1][i].ba[bq[1]])
            \/ pml_j_fp'[1][i].fab[bq[1]][bq[2]][1] = current_fp[1][i].fab[kp[1]][kp[2]][1]

\* CopyToPML changed no valid point of the layer.
LayerValidUnchanged ==
    \A i \in 1..3 : \A bq \in ValidPoints(pml_j_fp[1][i]) :
        pml_j_fp'[1][i].fab[bq[1]][bq[2]] = pml_j_fp[1][i].fab[bq[1]][bq[2]]

\* C13, as stated: CopyToPML never modifies the interior field, leaves every
\* valid point of the layer unchanged, and gives each ghost point of the layer
\* that coincides with an interior valid point the interior value.
C13_CopyWritesGhostsOnly ==
    [][CopyStep => /\ current_fp' = current_fp
                   /\ LayerValidUnchanged
                   /\ GhostsTakeInterior]_vars

\* CopyToPML gave every point of the layer, valid or ghost, that coincides with
\* an interior valid point the interior value.
LayerTakesInterior ==
    \A i \in 1..3 : \A kp \in ValidPoints(current_fp[1][i]) :
        \A bq \in PlacesOf(kp[2], pml_j_fp[1][i], pml_j_fp[1][i].ng) :
            pml_j_fp'[1][i].fab[bq[1]][bq[2]][1] = current_fp[1][i].fab[kp[1]][kp[2]][1]

\* CopyToPML changed no point of the layer that coincides with no interior
\* valid point.
LayerElsewhereUnchanged ==
    \A i \in 1..3 : \A bq \in Points(pml_j_fp[1][i]) :
        ValidSomewhere(bq[2], current_fp[1][i])
        \/ pml_j_fp'[1][i].fab[bq[1]][bq[2]] = pml_j_fp[1][i].fab[bq[1]][bq[2]]

\* C13, amended: CopyToPML never modifies the interior field; every point of
\* the layer, valid or ghost, that coincides with an interior valid point
\* receives the interior value, and every other point of the layer is unchanged.
C13_CopyToPML ==
    [][CopyStep => /\ current_fp' = current_fp
                   /\ LayerTakesInterior
                   /\ LayerElsewhereUnchanged]_vars

\* C13 witness: a copy of the current left an interior value in a valid point
\* of the layer and in a ghost point, and left another point of the layer as
\* the constructor set it.
C13_Witness ==
    /\ LastOpIs("CopyJtoPMLs") /\ pml_j_fp # NoValue /\ current_fp # NoValue
    /\ \E i \in 1..3 :
          /\ \E bq \in ValidPoints(pml_j_fp[1][i]) : pml_j_fp[1][i].fab[bq[1]][bq[2]][1] < 0
          /\ \E bq \in Points(pml_j_fp[1][i]) \ ValidPoints(pml_j_fp[1][i]) :
                 pml_j_fp[1][i].fab[bq[1]][bq[2]][1] < 0
          /\ \E bq \in Points(pml_j_fp[1][i]) :
                 /\ ~ValidSomewhere(bq[2], current_fp[1][i])
                 /\ pml_j_fp[1][i].fab[bq[1]][bq[2]][1] = 0

\* The step changed nothing of the object, of the interior fields or of the
\* disk, and raised no error.
NoEffect == UNCHANGED << inputs, coarse, pc, fatal, ba, m_ok, fields, sigba_fp,
                         spectral_solver_fp, interior, disk >>

\* C14: ExchangeE, ExchangeB, ExchangeF and CopyJtoPMLs called when the layer
\* group of the patch was never allocated or the interior group is absent, and
\* FillBoundary for each layer group that was never allocated, change no state
\* and raise no error.
C14_AbsentGroupNoOp ==
    [][/\ StepOf("ExchangeE") /\ (pml_E_fp = NoValue \/ Efield_fp = NoValue) => NoEffect
       /\ StepOf("ExchangeB") /\ (pml_B_fp = NoValue \/ Bfield_fp = NoValue) => NoEffect
       /\ StepOf("ExchangeF") /\ (pml_F_fp = NoValue \/ F_fp = NoValue) => NoEffect
       /\ StepOf("CopyJtoPMLs") /\ (pml_j_fp = NoValue \/ current_fp = NoValue) => NoEffect
       /\ StepOf("FillBoundary") =>
             /\ pml_E_fp = NoValue => pml_E_fp' = NoValue
             /\ pml_B_fp = NoValue => pml_B_fp' = NoValue
             /\ pml_F_fp = NoValue => pml_F_fp' = NoValue
             /\ pc' = pc /\ fatal' = fatal
             /\ (pml_E_fp = NoValue /\ pml_B_fp = NoValue /\ pml_F_fp = NoValue) => NoEffect
      ]_vars

\* C14 witness: ExchangeE and FillBoundary were called on an object whose
\* layer groups were never allocated, with the interior fields present.
C14_Witness ==
    /\ pc = "constructed" /\ ~m_ok /\ fatal = "none"
    /\ pml_E_fp = NoValue /\ pml_F_fp = NoValue /\ Efield_fp # NoValue
    /\ Len(trace) = 2 /\ trace[1].op = "ExchangeE" /\ trace[2].op = "FillBoundary"

\* The constructor reached the construction of the damping profiles.
ProfilesBuilt == m_ok /\ pc \in {"constructed", "aborted"}

\* The number of interior blocks classified as direct-face neighbours of layer
\* block k on axis d.
NDirect(k, d) == Len(OfCategory("direct_face", ba[k], LayerGrids, d, ncell))

TooManyDirectMsg == "direct_faces.size() > 1"

\* C15: the construction of the profiles aborts with a fatal error whenever some
\* layer block has more than one direct-face neighbour on some axis; when every
\* block has at most one on every axis, the direct_faces.size() > 1 error is
\* not raised.
C15_TooManyDirectFaces ==
    ProfilesBuilt =>
        /\ (\E k \in DOMAIN ba : \E d \in Dims : NDirect(k, d) > 1)
               => pc = "aborted" /\ fatal # "none"
        /\ (\A k \in DOMAIN ba : \A d \in Dims : NDirect(k, d) <= 1)
               => fatal # TooManyDirectMsg

\* C15 witness: a layer block between two interior blocks had two direct-face
\* neighbours on one axis, and the constructor aborted with that error.
C15_Witness ==
    /\ ProfilesBuilt /\ pc = "aborted" /\ fatal = TooManyDirectMsg
    /\ \E k \in DOMAIN ba : \E d \in Dims : NDirect(k, d) = 2

\* C16: no block MakeBoxArray returns holds a cell outside the domain along a
\* periodic axis, nor beyond the low (high) face along an axis whose low (high)
\* flag is off; along an enabled side of a non-periodic axis the blocks reach at
\* most ncell cells beyond the face.
C16_LayerWithinGrownDomain ==
    Returned => \A k \in DOMAIN ba : \A d \in Dims :
        /\ (isPeriodic[d] \/ ~do_pml_Lo[d]) => ba[k].lo[d] >= domain.lo[d]
        /\ (isPeriodic[d] \/ ~do_pml_Hi[d]) => ba[k].hi[d] <= domain.hi[d]
        /\ ba[k].lo[d] >= domain.lo[d] - ncell
        /\ ba[k].hi[d] <= domain.hi[d] + ncell

\* C16 witness: a returned block set reaches exactly ncell cells beyond an
\* enabled face, while an interior block touches a face that is periodic or
\* switched off, beyond which the blocks therefore do not go.
C16_Witness ==
    /\ Returned
    /\ \E k \in DOMAIN ba : \E d \in Dims :
          ba[k].lo[d] = domain.lo[d] - ncell \/ ba[k].hi[d] = domain.hi[d] + ncell
    /\ \E g \in DOMAIN LayerGrids : \E d \in Dims :
          \/ (isPeriodic[d] \/ ~do_pml_Lo[d]) /\ LayerGrids[g].lo[d] = domain.lo[d]
          \/ (isPeriodic[d] \/ ~do_pml_Hi[d]) /\ LayerGrids[g].hi[d] = domain.hi[d]

\* Exchange left every valid point of the interior array as it was, and the
\* whole array when it has no ghost points.
InteriorKept(old, new) ==
    /\ \A kp \in ValidPoints(old) : new.fab[kp[1]][kp[2]] = old.fab[kp[1]][kp[2]]
    /\ old.ng = 0 => new = old

\* C17: with the layer outside the domain, an exchange changes no interior
\* valid point, the outermost node on node-staggered axes included; only
\* interior ghost points may be overwritten, and an interior array without
\* ghost points is not modified at all.
C17_InteriorValidKept ==
    [][~do_pml_in_domain =>
         /\ StepOf("ExchangeE") /\ pml_E_fp # NoValue /\ Efield_fp # NoValue =>
               \A i \in 1..3 : InteriorKept(Efield_fp[1][i], Efield_fp'[1][i])
         /\ StepOf("ExchangeB") /\ pml_B_fp # NoValue /\ Bfield_fp # NoValue =>
               \A i \in 1..3 : InteriorKept(Bfield_fp[1][i], Bfield_fp'[1][i])
         /\ StepOf("ExchangeF") /\ pml_F_fp # NoValue /\ F_fp # NoValue =>
               InteriorKept(F_fp[1], F_fp'[1])
      ]_vars

\* C17 witness: ExchangeE overwrote an interior ghost point with the layer's
\* value while a valid interior node shared with the layer kept its own, and
\* ExchangeF then ran on an interior array without ghost points.
C17_Witness ==
    /\ ~do_pml_in_domain /\ pml_E_fp # NoValue /\ Efield_fp # NoValue
    /\ pml_F_fp # NoValue /\ F_fp # NoValue /\ F_fp[1].ng = 0
    /\ Len(trace) = 2 /\ trace[1].op = "ExchangeE" /\ trace[2].op = "ExchangeF"
    /\ \E i \in 1..3 :
          /\ \E kp \in Points(Efield_fp[1][i]) \ ValidPoints(Efield_fp[1][i]) :
                 Efield_fp[1][i].fab[kp[1]][kp[2]][1] = 0
          /\ \E kp \in ValidPoints(Efield_fp[1][i]) :
                 /\ PlacesOf(kp[2], pml_E_fp[1][i], 0) # {}
                 /\ Efield_fp[1][i].fab[kp[1]][kp[2]][1] < 0

\* Exchange left every split component of every valid point of the layer array
\* as it was.
LayerValidKept(old, new) ==
    \A bq \in ValidPoints(old) : new.fab[bq[1]][bq[2]] = old.fab[bq[1]][bq[2]]

\* C18, as stated: with the layer in the domain, an exchange leaves every split
\* component of every valid point of the layer unchanged; only ghost points of
\* the layer may receive new values.
C18_LayerValidKept ==
    [][do_pml_in_domain =>
         /\ StepOf("ExchangeE") /\ pml_E_fp # NoValue /\ Efield_fp # NoValue =>
               \A i \in 1..3 : LayerValidKept(pml_E_fp[1][i], pml_E_fp'[1][i])
         /\ StepOf("ExchangeB") /\ pml_B_fp # NoValue /\ Bfield_fp # NoValue =>
               \A i \in 1..3 : LayerValidKept(pml_B_fp[1][i], pml_B_fp'[1][i])
         /\ StepOf("ExchangeF") /\ pml_F_fp # NoValue /\ F_fp # NoValue =>
               LayerValidKept(pml_F_fp[1], pml_F_fp'[1])
      ]_vars

\* The lone SigmaBox of the three-dimensional build, once built, with the
\* interior block among its neighbours.
Built3 == /\ pc = "built" /\ Len(domain.lo) = SpaceDim3
          /\ IsNeighbour3(ba[1], grid_ba[1], ncell)

\* The class of the interior block as a neighbour of the destination block on
\* axis d.
ClassOn(d) == Classify3(ba[1], grid_ba[1], d, ncell)

\* The index range along d of a box, as a fill walks it; empty for an empty box.
RangeOn(b, d) == IF Box3Ok(b) THEN FillRange(b, d) ELSE {}

\* The index range along d of the neighbour's overlap with the destination
\* block: the sideways-grown neighbour for the given zero-filled classes, the
\* cells adjacent to its low and high faces for the others.
OverlapRange(zeroClasses, d) ==
    IF ClassOn(d) \in zeroClasses
    THEN RangeOn(ZeroOverlap3(ba[1], grid_ba[1], d, ncell), d)
    ELSE RangeOn(LoOverlap3(ClassOn(d), ba[1], grid_ba[1], d, ncell), d)
         \cup RangeOn(HiOverlap3(ClassOn(d), ba[1], grid_ba[1], d, ncell), d)

\* All four profile arrays of axis d are zero at index i.
ZeroAt(d, i) ==
    /\ FracIsZero(sigba_fp[1].sb[1].prof[d].sigma[i])
    /\ FracIsZero(sigba_fp[1].sb[1].prof[d].sigma_cumsum[i])
    /\ FracIsZero(sigba_fp[1].sb[1].prof[d].sigma_star[i])
    /\ FracIsZero(sigba_fp[1].sb[1].prof[d].sigma_star_cumsum[i])

\* Some entry of a profile array of axis d was written with a non-zero value.
SomeNonZero(d) ==
    \E i \in DOMAIN sigba_fp[1].sb[1].prof[d].sigma :
        \/ IsValue(sigba_fp[1].sb[1].prof[d].sigma[i])
              /\ ~FracIsZero(sigba_fp[1].sb[1].prof[d].sigma[i])
        \/ IsValue(sigba_fp[1].sb[1].prof[d].sigma_star[i])
              /\ ~FracIsZero(sigba_fp[1].sb[1].prof[d].sigma_star[i])

\* C19, as stated: on axis d a side-face, side-edge or direct-edge neighbour
\* has all four profile arrays set to zero over its overlap, and only
\* direct-face and corner neighbours contribute non-zero fills.
C19_EdgesZeroFilled ==
    Built3 => \A d \in Dims3 :
        /\ ClassOn(d) \in {"side_face", "side_side_edge", "direct_side_edge"} =>
              \A i \in OverlapRange({"side_face", "side_side_edge"}, d) : ZeroAt(d, i)
        /\ SomeNonZero(d) => ClassOn(d) \in {"direct_face", "corner"}

\* C19, amended: on axis d a side-face or side-side-edge neighbour has all four
\* profile arrays set to zero over its overlap and contributes no non-zero
\* entry; direct-face, direct-side-edge and corner neighbours are the ones that
\* contribute non-zero low/high fills.
C19_SideNeighboursZero ==
    Built3 => \A d \in Dims3 :
        /\ ClassOn(d) \in {"side_face", "side_side_edge"} =>
              /\ OverlapRange({"side_face", "side_side_edge"}, d) # {}
              /\ \A i \in OverlapRange({"side_face", "side_side_edge"}, d) : ZeroAt(d, i)
        /\ SomeNonZero(d) <=> ClassOn(d) \in {"direct_face", "direct_side_edge", "corner"}

\* C19 witness: a destination block that has the interior block as a direct
\* side edge on one axis, with a non-zero fill, as a side-side edge on another,
\* with a zero fill, and a block that has it as a side face.
C19_Witness ==
    /\ Built3
    /\ \E d \in Dims3 : ClassOn(d) = "direct_side_edge" /\ SomeNonZero(d)
    /\ \E d \in Dims3 : /\ ClassOn(d) = "side_side_edge"
                         /\ \E i \in OverlapRange({"side_side_edge"}, d) : ZeroAt(d, i)

\* The overlaps of the low-side and the high-side fill of axis d, when the
\* neighbour's class on d is one that is filled that way.
LoOverlapOn(d) == LoOverlap3(ClassOn(d), ba[1], grid_ba[1], d, ncell)
HiOverlapOn(d) == HiOverlap3(ClassOn(d), ba[1], grid_ba[1], d, ncell)
LoHiFilled(d) == ClassOn(d) \in {"direct_face", "direct_side_edge", "corner"}

\* The indices overlap_low .. overlap_high + extra of a non-empty overlap.
UpTo(b, d, extra) == IF Box3Ok(b) THEN b.lo[d]..(b.hi[d] + extra) ELSE {}

\* The indices of axis d at which the primary arrays, and the star arrays, hold
\* a value the constructor wrote.
PrimaryWritten(d) ==
    {i \in DOMAIN sigba_fp[1].sb[1].prof[d].sigma :
        /\ IsValue(sigba_fp[1].sb[1].prof[d].sigma[i])
        /\ IsValue(sigba_fp[1].sb[1].prof[d].sigma_cumsum[i])}
StarWritten(d) ==
    {i \in DOMAIN sigba_fp[1].sb[1].prof[d].sigma_star :
        /\ IsValue(sigba_fp[1].sb[1].prof[d].sigma_star[i])
        /\ IsValue(sigba_fp[1].sb[1].prof[d].sigma_star_cumsum[i])}

\* C20, as stated: in the low-side and high-side fills over an overlap
\* [olo, ohi] the star arrays are written up to ohi + 1, exactly one index more
\* than the primary arrays.
C20_StarOneMore ==
    Built3 => \A d \in Dims3 : LoHiFilled(d) =>
        /\ StarWritten(d) = UpTo(LoOverlapOn(d), d, 1) \cup UpTo(HiOverlapOn(d), d, 1)
        /\ PrimaryWritten(d) = UpTo(LoOverlapOn(d), d, 0) \cup UpTo(HiOverlapOn(d), d, 0)

\* C20, amended: in the low-side and high-side fills over an overlap [olo, ohi]
\* the star arrays are written for the indices olo .. ohi + 1, the same range
\* over which the primary arrays are written.
C20_StarSameRange ==
    Built3 => \A d \in Dims3 : LoHiFilled(d) =>
        /\ StarWritten(d) = UpTo(LoOverlapOn(d), d, 1) \cup UpTo(HiOverlapOn(d), d, 1)
        /\ PrimaryWritten(d) = StarWritten(d)

\* C20 witness: a low-side fill on one axis and a high-side fill on another
\* each wrote the primary and the star arrays at overlap_high + 1.
C20_Witness ==
    /\ Built3
    /\ \E d \in Dims3 :
          /\ LoHiFilled(d) /\ Box3Ok(LoOverlapOn(d)) /\ ~Box3Ok(HiOverlapOn(d))
          /\ LoOverlapOn(d).hi[d] + 1 \in PrimaryWritten(d) \cap StarWritten(d)
    /\ \E d \in Dims3 :
          /\ LoHiFilled(d) /\ Box3Ok(HiOverlapOn(d)) /\ ~Box3Ok(LoOverlapOn(d))
          /\ HiOverlapOn(d).hi[d] + 1 \in PrimaryWritten(d) \cap StarWritten(d)

\* The calls a completed PushPMLPSATDSinglePatch made on the solver.
PushDone == LastOpIs("PushPSATD") /\ pc = "constructed" /\ spectral_solver_fp # NoValue
SolverLog == spectral_solver_fp[1].log
LogOf(call) == {k \in DOMAIN SolverLog : SolverLog[k][1] = call}
OnField(K, f, i) == {k \in K : SolverLog[k][2] = f /\ SolverLog[k][3] = i}
Triple(k) == << SolverLog[k][2], SolverLog[k][3], SolverLog[k][4], SolverLog[k][5] >>
LayerField(f, i) == IF f = "E" THEN pml_E_fp[1][i] ELSE pml_B_fp[1][i]

\* Every call of the set K has its own spectral identifier and its own
\* (field, component).
OncePerTriple(K) ==
    \A k \in K : \A l \in K :
        k # l => /\ SolverLog[k][4] # SolverLog[l][4]
                 /\ << SolverLog[k][2], SolverLog[k][3], SolverLog[k][5] >>
                        # << SolverLog[l][2], SolverLog[l][3], SolverLog[l][5] >>

\* Forward transforms, one update, then the backward transforms of the same
\* triples.
ForwardPushBackward ==
    /\ Cardinality(LogOf("pushSpectralFields")) = 1
    /\ OncePerTriple(LogOf("ForwardTransform"))
    /\ OncePerTriple(LogOf("BackwardTransform"))
    /\ {Triple(k) : k \in LogOf("ForwardTransform")}
           = {Triple(k) : k \in LogOf("BackwardTransform")}
    /\ \A p \in LogOf("pushSpectralFields") :
          /\ \A k \in LogOf("ForwardTransform") : k < p
          /\ \A k \in LogOf("BackwardTransform") : p < k

\* C21: a completed PushPMLPSATDSinglePatch forward-transforms every allocated
\* split sub-component of every E and B layer field exactly once, each under its
\* own spectral identifier, then calls the spectral update exactly once, then
\* inverse-transforms exactly the same triples, with no inverse transform before
\* the update and no forward transform after it; the third E sub-component of
\* divergence cleaning included.
C21_EverySubcomponentTransformed ==
    PushDone =>
        /\ ForwardPushBackward
        /\ \A f \in {"E", "B"} : \A i \in 1..3 :
              Cardinality(OnField(LogOf("ForwardTransform"), f, i)) = LayerField(f, i).ncomp

\* The names of the files CheckPoint writes and Restart reads.
FineNames == {FineFiles(CheckpointDir)[k][1] : k \in DOMAIN FineFiles(CheckpointDir)}

\* The file of a name holds the E or B array it is named after.
FileHolds(k) ==
    LET f == FineFiles(CheckpointDir)[k]
    IN  /\ f[1] \in DOMAIN disk
        /\ disk[f[1]] = << IF f[2] = "E" THEN pml_E_fp[1][f[3]] ELSE pml_B_fp[1][f[3]] >>

\* An enabled object on which the last call, CheckPoint or Restart, returned.
Saved == /\ pc = "constructed" /\ pml_E_fp # NoValue
         /\ LastOpIs("CheckPoint") \/ LastOpIs("Restart")

\* C22: after CheckPoint, and after the Restart that reads it back, every split
\* field group held in memory has its array-set on disk under its own key, equal
\* to the group in memory: E and B per axis, and F when divergence cleaning is
\* active.
C22_EveryGroupSaved ==
    Saved =>
        /\ \A k \in DOMAIN FineFiles(CheckpointDir) : FileHolds(k)
        /\ pml_F_fp # NoValue => \E n \in DOMAIN disk \ FineNames : disk[n] = pml_F_fp

\* The constructor built both patches.
CoarseBuilt == pc = "constructed" /\ m_ok /\ cgeom # NoValue /\ sigba_cp # NoValue

\* The layer depth of the coarse patch that gives it the physical width of the
\* fine one, in coarse cells.
ScaledDepth(d) == ncell \div ref_ratio[d]

\* The coarse damping profiles are those of depth and length ncell/ref_ratio
\* and delta/ref_ratio.
CoarseProfileScaled ==
    sigba_cp[1].sb = MultiSigmaBox(cba, CoarseGrids, cgeom[1].dx,
                                   ScaledDepth(1), delta \div ref_ratio[1])

\* Along axis d, every coarse layer block lies within ncell/ref_ratio coarse
\* cells of the coarse domain.
CoarseLayerWithin(d) ==
    \A k \in DOMAIN cba :
        /\ cgeom[1].domain.lo[d] - ScaledDepth(d) <= cba[k].lo[d]
        /\ cba[k].hi[d] <= cgeom[1].domain.hi[d] + ScaledDepth(d)

\* C23: with a coarse companion geometry, in layer-in-domain and in
\* layer-outside-domain mode alike, the coarse layer is built with the depth
\* ncell divided by the refinement ratio on every axis, in its block set and in
\* its damping profile, so that it is as wide physically as the fine layer.
C23_CoarseDepthScaled ==
    CoarseBuilt => /\ \A d \in Dims : CoarseLayerWithin(d)
                   /\ CoarseProfileScaled

\* A profile entry a fill has written is not negative.
NonNegative(v) == IsValue(v) => v[1].n * v[1].d >= 0

\* The four profile arrays of axis d of a SigmaBox hold no negative entry.
ProfileNonNegative(sb, d) ==
    \A i \in DOMAIN sb.prof[d].sigma :
        /\ NonNegative(sb.prof[d].sigma[i])
        /\ NonNegative(sb.prof[d].sigma_cumsum[i])
        /\ NonNegative(sb.prof[d].sigma_star[i])
        /\ NonNegative(sb.prof[d].sigma_star_cumsum[i])

\* C24: every value the SigmaBox constructor writes into sigma, sigma_cumsum,
\* sigma_star and sigma_star_cumsum, by a low-side, high-side or zero fill, at
\* every written index (overlap_high + 1 included), is non-negative, so that no
\* decay factor exp(-value*dt) or exp(-value*dx) exceeds 1.
C24_ProfilesNonNegative ==
    sigba_fp # NoValue /\ Len(domain.lo) = SpaceDim =>
        \A k \in DOMAIN sigba_fp[1].sb : \A d \in Dims :
            ProfileNonNegative(sigba_fp[1].sb[k], d)

\* C25: after an exchange, with the layer in the domain or outside it, at every
\* point of the layer, valid or within its ghost width, that coincides (directly
\* or through a periodic shift) with an interior valid point, the split
\* components of the layer sum to the value the interior holds at that point.
C25_LayerSumIsInterior ==
    \A pr \in Exchanged : \A kp \in ValidPoints(pr[2]) :
        \A bq \in PlacesOf(kp[2], pr[1], pr[1].ng) :
            SplitSum(pr[1].fab[bq[1]][bq[2]]) = pr[2].fab[kp[1]][kp[2]][1]

\* C25 witness: with the layer in the domain, an exchange of E after a restart
\* left a restored layer value with a non-zero second component in a valid point
\* of the layer, and the interior value alone in a ghost point of the layer.
C25_Witness ==
    /\ do_pml_in_domain /\ Len(trace) = 2 /\ trace[1].op = "Restart"
    /\ LastOpIs("ExchangeE")
    /\ \E pr \in Exchanged : \E kp \in ValidPoints(pr[2]) :
         \E bq \in PlacesOf(kp[2], pr[1], 0) :
           /\ pr[1].fab[bq[1]][bq[2]][2] # 0
           /\ SplitSum(pr[1].fab[bq[1]][bq[2]]) = pr[2].fab[kp[1]][kp[2]][1]
    /\ \E pr \in Exchanged : \E kp \in ValidPoints(pr[2]) :
         \E bq \in PlacesOf(kp[2], pr[1], pr[1].ng) :
           /\ ~InBox(bq[2], pr[1].ba[bq[1]])
           /\ pr[1].fab[bq[1]][bq[2]][2] = 0
           /\ pr[1].fab[bq[1]][bq[2]][1] = pr[2].fab[kp[1]][kp[2]][1]

\* The indices of axis d the fills of the constructor walked: the overlap of the
\* neighbour for its class, from overlap_low to overlap_high + 1.
Walked(d) == OverlapRange(ZeroFilled3, d)

\* The allocated indices of the four profile arrays of axis d.
Allocated(d) == DOMAIN sigba_fp[1].sb[1].prof[d].sigma
                    \cap DOMAIN sigba_fp[1].sb[1].prof[d].sigma_cumsum
                    \cap DOMAIN sigba_fp[1].sb[1].prof[d].sigma_star
                    \cap DOMAIN sigba_fp[1].sb[1].prof[d].sigma_star_cumsum

\* C26: on every axis and for every class of neighbour (corner, side-side edge,
\* direct side edge, side face, direct face), every index FillLo, FillHi and
\* FillZero write lies within the profile range [m_lo, m_hi] = [lo, hi+1] of
\* the destination block, the N+1 allocated entries of each profile array.
C26_FillsWithinProfile ==
    Built3 => \A d \in Dims3 :
        /\ Walked(d) \subseteq ba[1].lo[d]..(ba[1].hi[d] + 1)
        /\ Walked(d) \subseteq Allocated(d)
        /\ PrimaryWritten(d) \cup StarWritten(d) = Walked(d)

\* C26 witness: on one axis of a built SigmaBox a low or high fill, and on
\* another a zero fill, reached the last allocated index hi + 1 of the
\* destination block.
C26_Witness ==
    /\ Built3
    /\ \E d \in Dims3 : LoHiFilled(d) /\ ba[1].hi[d] + 1 \in Walked(d)
    /\ \E d \in Dims3 : ClassOn(d) \in ZeroFilled3 /\ ba[1].hi[d] + 1 \in Walked(d)

\* A SigmaBox built against two interior blocks.
BuiltTwo == pc = "built" /\ Len(domain.lo) = SpaceDim3 /\ Len(grid_ba) = 2

\* The four profile arrays of one axis.
ProfileArrays == {"sigma", "sigma_cumsum", "sigma_star", "sigma_star_cumsum"}

\* The place of a class in the stated order of the fills.
Rank(cat) ==
    CASE cat = "corner" -> 1
      [] cat = "side_side_edge" -> 2
      [] cat = "direct_side_edge" -> 3
      [] cat = "side_face" -> 4
      [] cat = "direct_face" -> 5

\* The profile arrays of axis d as the fill of interior block k alone leaves
\* them.
Alone(k, d) ==
    FillNeighbour3(Classify3(ba[1], grid_ba[k], d, ncell),
                   [abort |-> "none", sig |-> NewSigma(ba[1], d)],
                   ba[1], grid_ba[k], d, ncell, Fac(dx, delta, d)).sig

\* The neighbours of the destination block on axis d: for each its class and the
\* arrays its fill alone leaves.
Neighbours(d) ==
    [k \in {m \in DOMAIN grid_ba : IsNeighbour3(ba[1], grid_ba[m], ncell)} |->
        [class |-> Classify3(ba[1], grid_ba[k], d, ncell), sig |-> Alone(k, d)]]

\* The neighbours whose overlap covers index i of array a.
Writers(nb, a, i) == {k \in DOMAIN nb : IsValue(nb[k].sig[a][i])}

\* The writers of the latest class in the stated order.
LatestWriters(nb, a, i) ==
    {k \in Writers(nb, a, i) :
        \A m \in Writers(nb, a, i) : Rank(nb[m].class) <= Rank(nb[k].class)}

\* The final value at index i of array a on axis d is the one of a latest
\* writer; an index no neighbour covers is unwritten.
LatestWins(nb, d, a, i) ==
    IF Writers(nb, a, i) = {}
    THEN ~IsValue(sigba_fp[1].sb[1].prof[d][a][i])
    ELSE \E k \in LatestWriters(nb, a, i) :
            sigba_fp[1].sb[1].prof[d][a][i] = nb[k].sig[a][i]

\* C27: on one axis the fills run in the order corner, side-side edge, direct
\* side edge, side face, direct face, so at every profile index covered by the
\* overlaps of several interior neighbours the final value is the one written
\* by the neighbour of the latest class in that order; an index no neighbour
\* covers stays unwritten.
C27_LatestClassWins ==
    BuiltTwo => \A d \in Dims3 : \A nb \in {Neighbours(d)} :
        \A a \in ProfileArrays : \A i \in DOMAIN sigba_fp[1].sb[1].prof[d][a] :
            LatestWins(nb, d, a, i)

\* Two neighbours of the given classes on axis d both cover an index of an
\* array with different values, and the final value is the later one's.
ContestedIn(nb, d, early, late) ==
    \E a \in ProfileArrays : \E i \in DOMAIN sigba_fp[1].sb[1].prof[d][a] :
        \E k \in Writers(nb, a, i) : \E m \in Writers(nb, a, i) :
            /\ nb[k].class = early
            /\ nb[m].class = late
            /\ nb[k].sig[a][i] # nb[m].sig[a][i]
            /\ sigba_fp[1].sb[1].prof[d][a][i] = nb[m].sig[a][i]
Contested(d, early, late) == ContestedIn(Neighbours(d), d, early, late)

\* C27 witness: in one built SigmaBox a side face's zero fill replaced the
\* different value of a corner on one axis, and a direct face's fill replaced
\* the different value of a corner on another.
C27_Witness ==
    /\ BuiltTwo
    /\ \E d \in Dims3 : Contested(d, "corner", "side_face")
    /\ \E d \in Dims3 : Contested(d, "corner", "direct_face")

====
